---------------------------- MODULE Spec2Model ----------------------------
(***************************************************************************)
(* A model of the meshfile library (jtsiomb/meshfile): the scene store,    *)
(* the scene graph API, the load/save dispatcher and the post-load         *)
(* pipeline of src/src/meshfile.c, with the parts of the format codecs     *)
(* that populate the scene.                                                *)
(*                                                                         *)
(* Geometry is modelled along one axis: a position is an integer x, a      *)
(* matrix is the 2x2 homogeneous column-major restriction <<m0,m1,m2,m3>>  *)
(* of the library's 4x4 column-major matrix to the x axis and the          *)
(* homogeneous coordinate (m0 scale, m2 translation, m1 = 0, m3 = 1).      *)
(* The matrix routines are the library's loops run with dimension 2.       *)
(***************************************************************************)
EXTENDS Integers, Sequences, FiniteSets, TLC

(***************************************************************************)
(* Bounds of the model.                                                    *)
(***************************************************************************)
NumNodes == 3
MaxCalls == 6
MaxSaves == 1
MaxLoads == 2

Nodes == 1..NumNodes
\* the null pointer
NULL == 0

VARIABLES
    \* --- scene graph: struct mf_node fields, per allocated node
    parent,         \* n->parent (NULL or a node)
    child,          \* n->child, the dynamic array of children
    num_child,      \* n->num_child
    matrix,         \* n->matrix
    global_matrix,  \* n->global_matrix
    \* --- scene store: struct mf_meshfile fields
    nodes,          \* mf->nodes
    topnodes,       \* mf->topnodes
    \* --- bookkeeping of the scene graph model
    last_op,        \* the API call that produced the current state
    ncalls,         \* number of API calls so far, where a run is bounded
    \* --- save dispatcher
    save_call,      \* the last mf_save / mf_save_userio call and its outcome
    \* --- scene store: geometry
    meshes,         \* mf->meshes, the meshes themselves
    node_meshes,    \* n->meshes, as 1-based indices into mf->meshes
    aabox,          \* mf->aabox
    \* --- load dispatcher and queries
    load_call,      \* the last mf_load_userio call and its outcome
    bounds_call,    \* the last mf_bounds call and its outcome
    \* --- immediate-mode builder
    bmesh,          \* the struct mf_mesh the caller builds
    immed,          \* the struct immed blocks allocated by mf_begin
    im_call,        \* the last builder call and its outcome
    \* --- OBJ writer
    disk,           \* the stream the last mf_save_obj wrote, and the call
    \* --- STL reader
    stl_call,       \* the last mf_load_stl call on a raw stream
    \* --- JTF reader, 3DS reader and writer on raw streams
    raw_call,       \* the last call on a raw stream and how far it got
    \* --- base64 decoder
    b64_call,       \* the last mf_b64decode call and its outcome
    \* --- MTL reader
    mtl_call        \* the last load_mtl call and the materials it added

graphVars == <<parent, child, num_child, matrix, global_matrix, nodes,
               topnodes, last_op>>

saveVars == <<save_call>>

sceneVars == <<meshes, node_meshes, aabox>>

loadVars == <<sceneVars, load_call, bounds_call>>

immVars == <<bmesh, immed, im_call>>

\* the variables of the parts added after the scene, save and load models
\* the calls of the functions that read no scene
pureVars == <<b64_call, mtl_call>>

auxVars == <<immVars, disk, stl_call, raw_call, pureVars>>

vars == <<graphVars, ncalls, saveVars, loadVars, auxVars>>

(***************************************************************************)
(* Sequence helpers (the dynamic array of dynarr.h has stack semantics:    *)
(* push appends, pop drops the last element).                              *)
(***************************************************************************)
Range(s) == {s[i] : i \in 1..Len(s)}

Occurrences(s, x) == Cardinality({i \in 1..Len(s) : s[i] = x})

\* index of the first occurrence of x in s, 0 when absent
FirstIndex(s, x) ==
    IF \E i \in 1..Len(s) : s[i] = x
    THEN CHOOSE i \in 1..Len(s) : s[i] = x /\ \A j \in 1..(i-1) : s[j] # x
    ELSE 0

DynarrPop(s) == SubSeq(s, 1, Len(s) - 1)

(***************************************************************************)
(* Math kernel (util.c), dimension 2.                                      *)
(***************************************************************************)
Dim == 2

mf_id_matrix == <<1, 0, 0, 1>>

\* res[i*Dim + j] = sum_k b[i*Dim + k] * a[k*Dim + j]   (0-based in the code)
mf_mult_matrix(a, b) ==
    [idx \in 1..(Dim*Dim) |->
        LET i == (idx - 1) \div Dim
            j == (idx - 1) % Dim
        IN  b[i*Dim + 1] * a[j + 1] + b[i*Dim + 2] * a[Dim + j + 1]]

\* x = v.x * m[0] + m[12]  (the translation column is the last one)
mf_transform(v, m) == v * m[1] + m[3]

TransMatrix(t) == <<1, 0, t, 1>>
ScaleMatrix(s) == <<s, 0, 0, 1>>

(***************************************************************************)
(* Scene graph API.                                                        *)
(***************************************************************************)
\* the node fields the graph calls touch, as one record
GraphState == [parent |-> parent, child |-> child, num_child |-> num_child,
               matrix |-> matrix]

\* mf_node_remove_child(n, c) on a graph state g
RemoveChildOp(g, n, c) ==
    LET sz == Len(g.child[n])
        i  == FirstIndex(g.child[n], c)
        \* child[i] = child[--num_child]; pop
        ch == IF i = 0 THEN g.child[n]
              ELSE DynarrPop([g.child[n] EXCEPT ![i] = g.child[n][sz]])
        nc == IF i = 0 THEN sz ELSE sz - 1
    IN  [g EXCEPT !.parent    = IF g.parent[c] = n
                                THEN [g.parent EXCEPT ![c] = NULL] ELSE g.parent,
                  !.child     = [g.child EXCEPT ![n] = ch],
                  !.num_child = [g.num_child EXCEPT ![n] = nc]]

\* mutant: the child is not taken out of its previous parent's list
AddChildOp_KeepOld(g, n, c) ==
    [g EXCEPT !.child[n] = Append(g.child[n], c),
              !.num_child[n] = Len(g.child[n]) + 1,
              !.parent[c] = n]

\* mf_node_add_child(n, c) on a graph state g (the push succeeded)
AddChildOp(g, n, c) ==
    LET pushed == [g EXCEPT !.child[n] = Append(g.child[n], c),
                            !.num_child[n] = Len(g.child[n]) + 1]
        removed == IF pushed.parent[c] # NULL
                   THEN RemoveChildOp(pushed, pushed.parent[c], c)
                   ELSE pushed
    IN  [removed EXCEPT !.parent[c] = n]

\* mf_node_add_child(n, c). (A failed mf_dynarr_push returns -1 before any
\* field is written: a stuttering step.)
mf_node_add_child(n, c) ==
    /\ LET g == AddChildOp(GraphState, n, c)
       IN  /\ parent' = g.parent
           /\ child' = g.child
           /\ num_child' = g.num_child
    /\ last_op' = IF parent[c] = NULL THEN "add_child"
                  ELSE IF parent[c] = n THEN "add_child_again"
                  ELSE "add_child_move"
    /\ UNCHANGED <<matrix, global_matrix, nodes, topnodes>>

mf_node_remove_child(n, c) ==
    /\ LET g == RemoveChildOp(GraphState, n, c)
       IN  /\ parent' = g.parent
           /\ child' = g.child
           /\ num_child' = g.num_child
    /\ last_op' = "remove_child"
    /\ UNCHANGED <<matrix, global_matrix, nodes, topnodes>>

\* mf_add_node(mf, n). A node is handed to the scene once; node identities
\* are interchangeable and are numbered in the order of their registration.
\* (A failed push returns -1 with both lists as they were: a stuttering step.)
mf_add_node(n) ==
    /\ n = Len(nodes) + 1
    /\ nodes' = Append(nodes, n)
    /\ topnodes' = IF parent[n] = NULL THEN Append(topnodes, n) ELSE topnodes
    /\ last_op' = "add_node"
    /\ UNCHANGED <<parent, child, num_child, matrix, global_matrix>>

\* the caller writes the public field n->matrix
SetMatrix(n, m) ==
    /\ matrix' = [matrix EXCEPT ![n] = m]
    /\ last_op' = "set_matrix"
    /\ UNCHANGED <<parent, child, num_child, global_matrix, nodes, topnodes>>

(***************************************************************************)
(* Transform propagation.                                                  *)
(***************************************************************************)
\* nodes reachable from n through child lists in at most k steps
RECURSIVE Descendants(_, _)
Descendants(S, k) ==
    IF k = 0 THEN S
    ELSE Descendants(S \cup UNION {Range(child[x]) : x \in S}, k - 1)

\* the recursion of mf_node_update_xform(n) returns iff no node below n
\* (n included) is reached again from its own children
Terminates(n) ==
    \A x \in Descendants({n}, NumNodes) :
        x \notin Descendants(Range(child[x]), NumNodes)

\* mf_node_update_xform(n) in the graph g, on the global matrices gm; fuel
\* bounds the depth
RECURSIVE NodeUpdateXform(_, _, _, _)
RECURSIVE ChildrenUpdateXform(_, _, _, _, _)
NodeUpdateXform(g, gm, n, fuel) ==
    LET own == IF g.parent[n] # NULL
               THEN mf_mult_matrix(gm[g.parent[n]], g.matrix[n])
               ELSE g.matrix[n]
        gm1 == [gm EXCEPT ![n] = own]
    IN  IF fuel = 0 THEN gm1
        ELSE ChildrenUpdateXform(g, gm1, n, 1, fuel - 1)

ChildrenUpdateXform(g, gm, n, i, fuel) ==
    IF i > g.num_child[n] THEN gm
    ELSE ChildrenUpdateXform(g, NodeUpdateXform(g, gm, g.child[n][i], fuel),
                             n, i + 1, fuel)

\* the loop of mf_update_xform over the top-level list tops, from index i
RECURSIVE UpdateXformFrom(_, _, _, _)
UpdateXformFrom(g, tops, gm, i) ==
    IF i > Len(tops) THEN gm
    ELSE UpdateXformFrom(g, tops, NodeUpdateXform(g, gm, tops[i], NumNodes),
                         i + 1)

\* mf_update_xform(mf)
mf_update_xform ==
    /\ \A i \in 1..Len(topnodes) : Terminates(topnodes[i])
    /\ global_matrix' = UpdateXformFrom(GraphState, topnodes, global_matrix, 1)
    /\ last_op' = "update_xform"
    /\ UNCHANGED <<parent, child, num_child, matrix, nodes, topnodes>>

(***************************************************************************)
(* Format table and save dispatcher.  A string is the sequence of its      *)
(* character codes; the terminating NUL is the code 0 read past the end.   *)
(***************************************************************************)
MF_FMT_AUTO == 0
MF_FMT_OBJ == 1
MF_FMT_JTF == 2
MF_FMT_GLTF == 3
MF_FMT_3DS == 4
MF_FMT_STL == 5
MF_NUM_FMT == 6
MF_FMT_MASK == 255

sfx_3ds == <<51, 100, 115>>
sfx_jtf == <<106, 116, 102>>
sfx_gltf == <<103, 108, 116, 102>>
sfx_stl == <<115, 116, 108>>
sfx_obj == <<111, 98, 106>>

\* the table, in its significant order; the sixth entry is the {0} filler
filefmt ==
    << [fmt |-> MF_FMT_3DS,  suffixes |-> <<sfx_3ds>>,  codec |-> TRUE],
       [fmt |-> MF_FMT_JTF,  suffixes |-> <<sfx_jtf>>,  codec |-> TRUE],
       [fmt |-> MF_FMT_GLTF, suffixes |-> <<sfx_gltf>>, codec |-> TRUE],
       [fmt |-> MF_FMT_STL,  suffixes |-> <<sfx_stl>>,  codec |-> TRUE],
       [fmt |-> MF_FMT_OBJ,  suffixes |-> <<sfx_obj>>,  codec |-> TRUE],
       [fmt |-> 0,           suffixes |-> <<>>,         codec |-> FALSE] >>

\* s[i] with 0-based i, the NUL at and past the end
CharAt(s, i) == IF i < Len(s) THEN s[i + 1] ELSE 0

tolower(c) == IF c >= 65 /\ c <= 90 THEN c + 32 ELSE c

\* mutant: the comparison is case sensitive (strcmp)
RECURSIVE strcmp_from(_, _, _)
strcmp_from(a, b, i) ==
    IF CharAt(a, i) # 0 /\ CharAt(b, i) # 0 /\ CharAt(a, i) = CharAt(b, i)
    THEN strcmp_from(a, b, i + 1)
    ELSE CharAt(a, i) - CharAt(b, i)

mf_strcmp(a, b) == strcmp_from(a, b, 0)

RECURSIVE strcasecmp_from(_, _, _)
strcasecmp_from(a, b, i) ==
    IF CharAt(a, i) # 0 /\ CharAt(b, i) # 0
       /\ tolower(CharAt(a, i)) = tolower(CharAt(b, i))
    THEN strcasecmp_from(a, b, i + 1)
    ELSE CharAt(a, i) - CharAt(b, i)

mf_strcasecmp(a, b) == strcasecmp_from(a, b, 0)

\* strrchr(s, c): 1-based index of the last c in s, 0 when there is none
strrchr(s, c) ==
    IF \E i \in 1..Len(s) : s[i] = c
    THEN CHOOSE i \in 1..Len(s) : s[i] = c /\ \A j \in (i+1)..Len(s) : s[j] # c
    ELSE 0

\* the suffix loops of mf_save from table entry i, suffix j: the format of
\* the first matching suffix, 0 when the loops run out
RECURSIVE MatchSuffix(_, _, _)
MatchSuffix(sfx, i, j) ==
    IF i > MF_NUM_FMT THEN 0
    ELSE IF j > Len(filefmt[i].suffixes) THEN MatchSuffix(sfx, i + 1, 1)
    ELSE IF mf_strcasecmp(sfx, filefmt[i].suffixes[j]) = 0 THEN filefmt[i].fmt
    ELSE MatchSuffix(sfx, i, j + 1)

\* the table index whose fmt is the given one, 0 when there is none
RECURSIVE FindFmt(_, _)
FindFmt(fmt, i) ==
    IF i > MF_NUM_FMT THEN 0
    ELSE IF filefmt[i].fmt = fmt THEN i
    ELSE FindFmt(fmt, i + 1)

\* mf_save_userio(mf, io, flags): the codec called (0: none) and the result;
\* codec_res is what the codec's save function returns
SaveUserio(flags, codec_res) ==
    LET tag == flags % (MF_FMT_MASK + 1)
        fmt == IF tag = 0 THEN MF_FMT_OBJ ELSE tag
        i   == FindFmt(fmt, 1)
    IN  IF i # 0
        THEN [codec |-> filefmt[i].fmt, res |-> codec_res, flags |-> flags]
        ELSE [codec |-> 0, res |-> -1, flags |-> flags]

\* the flags mf_save hands to mf_save_userio
SaveFlags(fname, flags) ==
    LET dot == strrchr(fname, 46)
    IN  IF flags % (MF_FMT_MASK + 1) = 0 /\ dot # 0
        THEN flags + MatchSuffix(SubSeq(fname, dot + 1, Len(fname)), 1, 1)
        ELSE flags

mf_save(fname, flags, opened, codec_res) ==
    /\ save_call' =
         IF ~opened
         THEN [entry |-> "mf_save", fname |-> fname, flags |-> flags,
               opened |-> FALSE, codec |-> 0, res |-> -1]
         ELSE LET r == SaveUserio(SaveFlags(fname, flags), codec_res)
              IN  [entry |-> "mf_save", fname |-> fname, flags |-> flags,
                   opened |-> TRUE, codec |-> r.codec, res |-> r.res]
    /\ UNCHANGED graphVars

mf_save_userio(flags, codec_res) ==
    /\ save_call' =
         LET r == SaveUserio(flags, codec_res)
         IN  [entry |-> "mf_save_userio", fname |-> <<>>, flags |-> flags,
              opened |-> TRUE, codec |-> r.codec, res |-> r.res]
    /\ UNCHANGED graphVars

(***************************************************************************)
(* Scene store: meshes, bounding boxes, node/mesh ownership.  A mesh keeps *)
(* its positions (x only); of the other per-vertex arrays only the number  *)
(* of elements is kept, 0 standing for the null array (an array is         *)
(* allocated by the first element pushed to it).  Faces are triples of     *)
(* 0-based vertex indices.  Assertions are compiled out (NDEBUG).          *)
(***************************************************************************)
\* stands for the largest float
FLT_MAX == 100

init_aabox == [vmin |-> FLT_MAX, vmax |-> -FLT_MAX]

expand_aabox(box, v) ==
    [vmin |-> IF v < box.vmin THEN v ELSE box.vmin,
     vmax |-> IF v > box.vmax THEN v ELSE box.vmax]

\* m->name is a pointer: to nothing ("null"), to a string that is allocated
\* ("live"), or to one that was released ("freed")
mf_init_mesh ==
    [vertex |-> <<>>, normal |-> 0, tangent |-> 0, texcoord |-> 0,
     color |-> 0, faces |-> <<>>, aabox |-> init_aabox, udata |-> 0,
     name |-> "null"]

\* m->name = strdup(...)
Named(m) == [m EXCEPT !.name = "live"]

mf_add_vertex(m, x) ==
    [m EXCEPT !.vertex = Append(m.vertex, x),
              !.aabox = expand_aabox(m.aabox, x)]

\* mf_add_vertex for xs[k], xs[k+1], ...
RECURSIVE AddVertices(_, _, _)
AddVertices(m, xs, k) ==
    IF k > Len(xs) THEN m
    ELSE AddVertices(mf_add_vertex(m, xs[k]), xs, k + 1)

\* mf_calc_normals(m): the result and the mesh it leaves
mf_calc_normals(m) ==
    IF Len(m.vertex) = 0 \/ Len(m.faces) = 0
    THEN [res |-> -1, mesh |-> m]
    ELSE [res |-> 0,
          mesh |-> IF m.normal = 0 THEN [m EXCEPT !.normal = Len(m.vertex)]
                   ELSE m]

\* mf_calc_tangents(m): the mesh it leaves (the caller drops the result)
mf_calc_tangents(m) ==
    IF Len(m.vertex) = 0 \/ Len(m.faces) = 0 \/ m.texcoord = 0 THEN m
    ELSE LET m1 == IF m.normal = 0 THEN mf_calc_normals(m).mesh ELSE m
         IN  IF m1.tangent = 0 THEN [m1 EXCEPT !.tangent = Len(m1.vertex)]
             ELSE m1

\* mf_inverse_matrix(inv, m), dimension 2: adjugate over determinant
mf_inverse_matrix(m) ==
    LET det == m[1] * m[4] - m[3] * m[2]
    IN  IF det = 0 THEN [res |-> -1, inv |-> m]
        ELSE [res |-> 0,
              inv |-> << m[4] \div det, (0 - m[2]) \div det,
                         (0 - m[3]) \div det, m[1] \div det >>]

\* the position loop of mf_transform_mesh, from position i on
RECURSIVE TransformVerts(_, _, _)
TransformVerts(vs, mat, i) ==
    IF i > Len(vs) THEN <<>>
    ELSE <<mf_transform(vs[i], mat)>> \o TransformVerts(vs, mat, i + 1)

\* mf_transform_mesh(m, mat): positions are rewritten, the box is not
mf_transform_mesh(m, mat) ==
    [m EXCEPT !.vertex = TransformVerts(m.vertex, mat, 1)]

\* the whole scene as one record, for the operators that rewrite it
SceneState ==
    [parent |-> parent, child |-> child, num_child |-> num_child,
     matrix |-> matrix, global_matrix |-> global_matrix,
     nodes |-> nodes, topnodes |-> topnodes,
     meshes |-> meshes, node_meshes |-> node_meshes, aabox |-> aabox]

\* mf_alloc_node: nodes are numbered in the order of their registration, and
\* the k-th node allocated since the last registration is this one
AllocNode(s, k) == Len(s.nodes) + k

\* mf_add_node(mf, n) on a scene s
AddNodeOp(s, n) ==
    [s EXCEPT !.nodes = Append(s.nodes, n),
              !.topnodes = IF s.parent[n] = NULL THEN Append(s.topnodes, n)
                           ELSE s.topnodes]

\* mf_add_mesh(mf, m) on a scene s
AddMeshOp(s, m) == [s EXCEPT !.meshes = Append(s.meshes, m)]

\* mf_node_add_mesh(n, m) on a scene s, m as an index into mf->meshes
NodeAddMeshOp(s, n, m) ==
    IF \E i \in 1..Len(s.node_meshes[n]) : s.node_meshes[n][i] = m THEN s
    ELSE [s EXCEPT !.node_meshes[n] = Append(s.node_meshes[n], m)]

\* calc_aabox: the three nested loops, over the vertices of a mesh ...
RECURSIVE ExpandVerts(_, _, _, _)
ExpandVerts(box, verts, mat, k) ==
    IF k > Len(verts) THEN box
    ELSE ExpandVerts(expand_aabox(box, mf_transform(verts[k], mat)),
                     verts, mat, k + 1)

\* ... over the meshes of a node ...
RECURSIVE ExpandMeshes(_, _, _, _)
ExpandMeshes(box, s, n, j) ==
    IF j > Len(s.node_meshes[n]) THEN box
    ELSE ExpandMeshes(ExpandVerts(box, s.meshes[s.node_meshes[n][j]].vertex,
                                  s.global_matrix[n], 1),
                      s, n, j + 1)

\* ... over the nodes of the scene
RECURSIVE ExpandNodes(_, _, _)
ExpandNodes(box, s, i) ==
    IF i > Len(s.nodes) THEN box
    ELSE ExpandNodes(ExpandMeshes(box, s, s.nodes[i], 1), s, i + 1)

calc_aabox(s) == [s EXCEPT !.aabox = ExpandNodes(init_aabox, s, 1)]

\* mf_update_xform(mf) on a scene s
UpdateXformOp(s) ==
    [s EXCEPT !.global_matrix = UpdateXformFrom(s, s.topnodes, s.global_matrix, 1)]

\* mf_apply_xform: the inner loop over the meshes of node n ...
RECURSIVE ApplyNodeMeshes(_, _, _)
ApplyNodeMeshes(s, n, j) ==
    IF j > Len(s.node_meshes[n]) THEN s
    ELSE LET k == s.node_meshes[n][j]
         IN  ApplyNodeMeshes(
                 [s EXCEPT !.meshes[k] =
                      mf_transform_mesh(s.meshes[k], s.global_matrix[n])],
                 n, j + 1)

\* ... and the outer loop over the nodes
RECURSIVE ApplyNodes(_, _)
ApplyNodes(s, i) ==
    IF i > Len(s.nodes) THEN s
    ELSE LET n  == s.nodes[i]
             s1 == ApplyNodeMeshes(s, n, 1)
         IN  ApplyNodes([s1 EXCEPT !.matrix[n] = mf_id_matrix,
                                   !.global_matrix[n] = mf_id_matrix],
                        i + 1)

mf_apply_xform(s) == ApplyNodes(s, 1)

(***************************************************************************)
(* The format codecs, as far as they populate the scene.  A stream is      *)
(* given by what the codecs decode from it: its kind (the format whose     *)
(* signature it carries, "none" when it carries none) and the decoded      *)
(* content.  A codec returns its result and the scene it leaves.           *)
(***************************************************************************)

\* What a codec run leaves behind besides its result, for the claims about
\* it: whether an index outside an array was used to read it (oob), whether
\* that read faulted, and for every mesh the OBJ reader handed to the scene
\* its index there, the (v,t,n) triple each of its vertices was built from
\* (keys) and the triples each of its faces referenced (refs); the number
\* of handles io->open returned to the codec (opened, the k-th one being
\* handle k) and the handles it passed to io->close, in order (closed); the
\* number of objects it handed to mf_add_mesh and mf_add_node whose name
\* pointer was null (unnamed).
NoTrace ==
    [oob |-> FALSE, fault |-> FALSE, built |-> <<>>, opened |-> 0,
     closed |-> <<>>, unnamed |-> 0]

\* io->open(name, mode) returned a handle: a new one
IoOpen(tr) == [tr EXCEPT !.opened = @ + 1]

\* io->close(h)
IoClose(tr, h) == [tr EXCEPT !.closed = Append(@, h)]

\* assert(m->name) of mf_add_mesh, assert(n->name) of mf_add_node: a build
\* with assertions stops there, one without goes on with the unnamed object
AssertName(tr, name) ==
    [tr EXCEPT !.unnamed = IF name = "null" THEN @ + 1 ELSE @]

\* read_trimesh (fmt3ds.c): the vertex list (x is stored as read), the
\* texture coordinate list with a count of its own, the faces
Read3dsLists(o) ==
    [AddVertices(Named(mf_init_mesh), o.verts, 1) EXCEPT
         !.texcoord = o.nuv, !.faces = o.faces]

\* the end of read_trimesh: a mesh matrix that has an inverse is baked in
Read3dsBake(o, m, inv) ==
    IF o.has_mm /\ inv.res # -1 THEN mf_transform_mesh(m, inv.inv) ELSE m

\* the end of read_object: an object without vertices is dropped, any other
\* gets a node n of its own, which holds the mesh matrix
Read3dsAdd(s, o, n, m) ==
    IF Len(m.vertex) = 0 THEN [res |-> 0, s |-> s]
    ELSE [res |-> 0,
          s |-> AddNodeOp(
                    AddMeshOp(
                        NodeAddMeshOp(
                            [s EXCEPT !.matrix[n] = IF o.has_mm THEN o.mm ELSE @],
                            n, Len(s.meshes) + 1),
                        m),
                    n)]

\* read_object for one object chunk o
Read3dsObject(s, o) ==
    IF ~o.ok THEN [res |-> -1, s |-> s]
    ELSE Read3dsAdd(s, o, AllocNode(s, 1),
                    Read3dsBake(o, Read3dsLists(o), mf_inverse_matrix(o.mm)))

\* the chunk loop of mf_load_3ds from object i
RECURSIVE Read3dsObjects(_, _, _)

\* a failed object ends the load, the chunks read before it stay
Read3dsNext(r, objs, i) ==
    IF r.res = -1 THEN r ELSE Read3dsObjects(r.s, objs, i + 1)

Read3dsObjects(s, objs, i) ==
    IF i > Len(objs) THEN [res |-> 0, s |-> s]
    ELSE Read3dsNext(Read3dsObject(s, objs[i]), objs, i)

mf_load_3ds(s, file) ==
    IF file.kind # "3ds" THEN [res |-> -1, s |-> s]
    ELSE Read3dsObjects(s, file.objs, 1)

\* the positions of faces fs[i], fs[i+1], ... in reading order
RECURSIVE FacePositions(_, _)
FacePositions(fs, i) ==
    IF i > Len(fs) THEN <<>> ELSE fs[i] \o FacePositions(fs, i + 1)

\* the triangles mf_load_jtf adds for faces i..nf
RECURSIVE JtfFaces(_, _)
JtfFaces(nf, i) ==
    IF i > nf THEN <<>>
    ELSE <<<<3*(i-1), 3*(i-1) + 1, 3*(i-1) + 2>>>> \o JtfFaces(nf, i + 1)

\* mf_load_jtf: one mesh, three vertices with a normal and a texture
\* coordinate each per face, one node
mf_load_jtf(s, file) ==
    IF file.kind # "jtf" \/ ~file.ok
    THEN [res |-> -1, s |-> s, trace |-> NoTrace]
    ELSE
      LET nf == Len(file.tris)
          m0 == AddVertices(Named(mf_init_mesh), FacePositions(file.tris, 1), 1)
          m1 == [m0 EXCEPT !.normal = 3 * nf, !.texcoord = 3 * nf,
                           !.faces = JtfFaces(nf, 1)]
          n  == AllocNode(s, 1)
      IN  [res |-> 0,
           trace |-> AssertName(AssertName(NoTrace, m1.name), "null"),
           s |-> AddNodeOp(
                     AddMeshOp(NodeAddMeshOp(s, n, Len(s.meshes) + 1), m1), n)]

\* the triangles mf_load_stl adds for faces i..nf
RECURSIVE StlFaces(_, _)
StlFaces(nf, i) ==
    IF i > nf THEN <<>>
    ELSE <<<<3*(i-1), 3*(i-1) + 2, 3*(i-1) + 1>>>> \o StlFaces(nf, i + 1)

\* mf_load_stl: one mesh, three vertices with a normal each per face, in
\* reversed winding, one node
mf_load_stl(s, file) ==
    IF file.kind # "stl" \/ ~file.ok
    THEN [res |-> -1, s |-> s, trace |-> NoTrace]
    ELSE
      LET nf == Len(file.tris)
          m0 == AddVertices(mf_init_mesh, FacePositions(file.tris, 1), 1)
          m1 == [m0 EXCEPT !.normal = 3 * nf,
                           !.faces = StlFaces(nf, 1)]
          n  == AllocNode(s, 1)
      IN  [res |-> 0,
           trace |-> AssertName(AssertName(NoTrace, m1.name), "null"),
           s |-> AddNodeOp(
                     AddMeshOp(NodeAddMeshOp(s, n, Len(s.meshes) + 1), m1), n)]

\* read_prim (fmtgltf.c) for a primitive it accepts: every attribute is read
\* with the element count of its own accessor
GltfReadPrim(p) ==
    [AddVertices(Named(mf_init_mesh), p.pos, 1) EXCEPT
         !.normal = p.normal, !.tangent = p.tangent,
         !.texcoord = p.texcoord, !.color = p.color, !.faces = p.faces]

\* the loop of read_mesh over the primitives of one glTF mesh: each mesh
\* built is tagged with gltf->meshcount; a primitive read_prim returns null
\* for (p.ok false) is skipped, one that is not a JSON object ends the
\* function with -1, the meshes added before it staying
RECURSIVE GltfReadPrims(_, _, _, _)
GltfReadPrims(s, prims, i, meshcount) ==
    IF i > Len(prims) THEN [res |-> 0, s |-> s]
    ELSE IF ~prims[i].obj THEN [res |-> -1, s |-> s]
    ELSE GltfReadPrims(
             IF ~prims[i].ok THEN s
             ELSE AddMeshOp(s, [GltfReadPrim(prims[i]) EXCEPT !.udata = meshcount]),
             prims, i + 1, meshcount)

\* read_mesh for element i of "meshes": without a primitives array it
\* returns -1 at once; gltf->meshcount is incremented where it returns 0
read_mesh(s, file, i, meshcount) ==
    IF i \in file.gnoprims THEN [res |-> -1, s |-> s, meshcount |-> meshcount]
    ELSE LET r == GltfReadPrims(s, file.gmeshes[i], 1, meshcount)
         IN  [res |-> r.res, s |-> r.s,
              meshcount |-> IF r.res = 0 THEN meshcount + 1 ELSE meshcount]

\* the "meshes" array in the loop of mf_load_gltf: an element that is not a
\* JSON object is passed over, any other is handed to read_mesh, whose
\* result is not looked at
RECURSIVE GltfReadMeshes(_, _, _, _)
GltfReadMeshes(s, file, i, meshcount) ==
    IF i > Len(file.gmeshes) THEN s
    ELSE IF i \in file.gskip THEN GltfReadMeshes(s, file, i + 1, meshcount)
    ELSE LET r == read_mesh(s, file, i, meshcount)
         IN  GltfReadMeshes(r.s, file, i + 1, r.meshcount)

\* read_node: the meshes of the scene whose udata is the node's mesh index,
\* from scene mesh i on
RECURSIVE GltfNodeMeshes(_, _, _, _)
GltfNodeMeshes(s, n, meshidx, i) ==
    IF i > Len(s.meshes) THEN s
    ELSE GltfNodeMeshes(
             IF s.meshes[i].udata = meshidx THEN NodeAddMeshOp(s, n, i) ELSE s,
             n, meshidx, i + 1)

\* the "nodes" array: node k of the file is the k-th node allocated
RECURSIVE GltfReadNodes(_, _, _)
GltfReadNodes(s, gns, k) ==
    IF k > Len(gns) THEN s
    ELSE LET n  == AllocNode(s, k)
             s1 == IF gns[k].mesh >= 0
                   THEN GltfNodeMeshes(s, n, gns[k].mesh, 1) ELSE s
         IN  GltfReadNodes([s1 EXCEPT !.matrix[n] = gns[k].matrix], gns, k + 1)

\* proc_node for node k: its children are attached until an index is past
\* the end of the node array
RECURSIVE GltfProcNode(_, _, _, _)
GltfProcNode(s, gns, k, i) ==
    IF i > Len(gns[k].children) THEN s
    ELSE IF gns[k].children[i] >= Len(gns) THEN s
    ELSE GltfProcNode(
             AddChildOp(s, AllocNode(s, k), AllocNode(s, gns[k].children[i] + 1)),
             gns, k, i + 1)

RECURSIVE GltfProcNodes(_, _, _)
GltfProcNodes(s, gns, k) ==
    IF k > Len(gns) THEN s
    ELSE GltfProcNodes(GltfProcNode(s, gns, k, 1), gns, k + 1)

\* the final loop of mf_load_gltf: the nodes are registered in file order
RECURSIVE GltfAddNodes(_, _)
GltfAddNodes(s, left) ==
    IF left = 0 THEN s ELSE GltfAddNodes(AddNodeOp(s, AllocNode(s, 1)), left - 1)

\* clear all mesh index numbers from mesh udata
RECURSIVE GltfClearFrom(_, _)
GltfClearFrom(ms, i) ==
    IF i > Len(ms) THEN <<>>
    ELSE <<[ms[i] EXCEPT !.udata = 0]>> \o GltfClearFrom(ms, i + 1)

GltfClearUdata(s) == [s EXCEPT !.meshes = GltfClearFrom(s.meshes, 1)]

\* read_data for a buffer with a uri: embedded base64 data is decoded in
\* place; an external file is opened and read, and the function returns
\* after the read, complete or not
read_data(tr, buf) ==
    IF buf.uri = "data" THEN tr
    ELSE IF ~buf.found THEN tr
    ELSE IoOpen(tr)

\* read_buffer for the buffers i.. of the file
RECURSIVE GltfReadBuffers(_, _, _)
GltfReadBuffers(tr, bufs, i) ==
    IF i > Len(bufs) THEN tr
    ELSE IF bufs[i].size <= 0 \/ bufs[i].uri = "none"
    THEN GltfReadBuffers(tr, bufs, i + 1)
    ELSE GltfReadBuffers(read_data(tr, bufs[i]), bufs, i + 1)

mf_load_gltf(s, file) ==
    IF file.kind # "gltf" THEN [res |-> -1, s |-> s, trace |-> NoTrace]
    ELSE [res |-> 0,
          trace |-> GltfReadBuffers(NoTrace, file.gbufs, 1),
          s |-> GltfAddNodes(
                    GltfProcNodes(
                        GltfClearUdata(
                            GltfReadNodes(GltfReadMeshes(s, file, 1, 0),
                                          file.gnodes, 1)),
                        file.gnodes, 1),
                    Len(file.gnodes))]

\* The lines of an OBJ stream: v, vn, vt, f with the written references of
\* its vertices (0: part not written), o or g, mtllib with whether the
\* library can be opened, a line the reader rejects, any other line
V(x) == [t |-> "v", x |-> x]
VN == [t |-> "vn"]
VT == [t |-> "vt"]
FV(v, t, n) == [v |-> v, t |-> t, n |-> n]
F(fv) == [t |-> "f", fv |-> fv]
G == [t |-> "g"]
MtlLib(found) == [t |-> "mtllib", found |-> found]
BadLine == [t |-> "bad"]
OtherLine == [t |-> "#"]

\* parse_idx (fmtobj.c): a written index to a 0-based one
parse_idx(val, arrsz) == IF val < 0 THEN arrsz + val ELSE val - 1

\* parse_face_vert: a part that is not written (0 here) stays -1, which is
\* also what a written 0 parses to
parse_face_vert(raw, numv, numt, numn) ==
    [vidx |-> parse_idx(raw.v, numv),
     tidx |-> IF raw.t = 0 THEN -1 ELSE parse_idx(raw.t, numt),
     nidx |-> IF raw.n = 0 THEN -1 ELSE parse_idx(raw.n, numn)]

\* mesh_done (fmtobj.c): the result, the scene and the current mesh it leaves
mesh_done(s, mesh) ==
    IF Len(mesh.faces) = 0 THEN [res |-> -1, s |-> s, mesh |-> mesh]
    ELSE IF mesh.normal # 0 /\ mesh.normal # Len(mesh.vertex)
    THEN [res |-> -1, s |-> s, mesh |-> mf_init_mesh]
    ELSE IF mesh.texcoord # 0 /\ mesh.texcoord # Len(mesh.vertex)
    THEN [res |-> -1, s |-> s, mesh |-> mf_init_mesh]
    ELSE LET n == AllocNode(s, 1)
         IN  [res |-> 0,
              s |-> AddNodeOp(
                        AddMeshOp(NodeAddMeshOp(s, n, Len(s.meshes) + 1), mesh),
                        n),
              mesh |-> mesh]

\* a read outside an array is undefined: in a run it yields some value
\* (val) or faults
NoUb == [val |-> 0, fault |-> FALSE]

\* the state of the OBJ parser before its first line; the tree of face
\* vertices (rb) is created once for the whole file
ObjStart(s, ub) ==
    [varr |-> <<>>, tsz |-> 0, nsz |-> 0, rb |-> {},
     mesh |-> Named(mf_init_mesh), s |-> s, failed |-> FALSE, vidx |-> <<>>, fvs |-> <<>>,
     keys |-> <<>>, refs |-> <<>>, ub |-> ub, trace |-> NoTrace]

\* the face vertex indexes one of the three arrays outside its elements
ObjOutside(ps, fv) ==
    \/ fv.vidx < 0 \/ fv.vidx >= Len(ps.varr)
    \/ fv.nidx >= ps.nsz
    \/ fv.tidx >= ps.tsz

\* varr[fv.vidx]
ObjReadPos(ps, fv) ==
    IF fv.vidx < 0 \/ fv.vidx >= Len(ps.varr) THEN ps.ub.val
    ELSE ps.varr[fv.vidx + 1]

\* a face vertex that is not in the tree is appended to the current mesh m,
\* which has the position added already
ObjNewVert(ps, fv, m) ==
    [ps EXCEPT !.mesh = [m EXCEPT !.normal = IF fv.nidx >= 0 THEN @ + 1 ELSE @,
                                  !.texcoord = IF fv.tidx >= 0 THEN @ + 1 ELSE @],
               !.vidx = Append(ps.vidx, Len(ps.mesh.vertex)),
               !.fvs = Append(ps.fvs, fv),
               !.keys = Append(ps.keys, fv),
               !.trace.oob = @ \/ ObjOutside(ps, fv),
               !.rb = ps.rb \cup {[key |-> fv, data |-> Len(ps.mesh.vertex)]}]

\* one face vertex: looked up in the tree, or appended to the current mesh
ObjFaceVert(ps, fv) ==
    IF ps.failed THEN ps
    ELSE IF \E e \in ps.rb : e.key = fv
    THEN [ps EXCEPT !.vidx = Append(ps.vidx,
                                    (CHOOSE e \in ps.rb : e.key = fv).data),
                    !.fvs = Append(ps.fvs, fv)]
    ELSE IF ObjOutside(ps, fv) /\ ps.ub.fault
    THEN [ps EXCEPT !.failed = TRUE, !.trace.oob = TRUE, !.trace.fault = TRUE]
    ELSE ObjNewVert(ps, fv, mf_add_vertex(ps.mesh, ObjReadPos(ps, fv)))

RECURSIVE ObjFaceVerts(_, _, _, _)
ObjFaceVerts(ps, raws, i, vsz) ==
    IF i > Len(raws) THEN ps
    ELSE ObjFaceVerts(
             ObjFaceVert(ps, parse_face_vert(raws[i], vsz, ps.tsz, ps.nsz)),
             raws, i + 1, vsz)

\* mf_add_triangle, and mf_add_quad as two triangles
ObjAddFace(m, v) ==
    IF Len(v) = 4
    THEN [m EXCEPT !.faces = m.faces \o << <<v[1], v[2], v[3]>>,
                                           <<v[1], v[3], v[4]>> >>]
    ELSE [m EXCEPT !.faces = Append(m.faces, <<v[1], v[2], v[3]>>)]

\* the triples behind the triangles ObjAddFace adds
ObjFaceRefs(k) ==
    IF Len(k) = 4 THEN << <<k[1], k[2], k[3]>>, <<k[1], k[3], k[4]>> >>
    ELSE << <<k[1], k[2], k[3]>> >>

\* the face is added once its vertices are known
ObjFaceDone(ps) ==
    IF ps.failed THEN ps
    ELSE [ps EXCEPT !.mesh = ObjAddFace(ps.mesh, ps.vidx),
                    !.refs = ps.refs \o ObjFaceRefs(ps.fvs)]

\* the parser after mesh_done returned d: a mesh that was handed to the
\* scene is recorded with the triples behind it
ObjMeshDone(ps, d) ==
    IF d.res # -1
    THEN [ps EXCEPT !.s = d.s, !.keys = <<>>, !.refs = <<>>,
                    !.trace = AssertName(
                                  AssertName(
                                      [@ EXCEPT !.built =
                                           Append(@, [mesh |-> Len(d.s.meshes),
                                                      keys |-> ps.keys,
                                                      refs |-> ps.refs])],
                                      ps.mesh.name),
                                  ps.mesh.name)]
    ELSE IF Len(ps.mesh.faces) # 0
    THEN [ps EXCEPT !.s = d.s, !.keys = <<>>, !.refs = <<>>]
    ELSE [ps EXCEPT !.s = d.s]

\* an "o" or "g" line: a mesh that was handed to the scene is followed by a
\* new one; d is what mesh_done returned
ObjGroup(ps, d) ==
    [ObjMeshDone(ps, d) EXCEPT
         !.mesh = Named(IF d.res # -1 THEN mf_init_mesh ELSE d.mesh)]

\* a "mtllib" line: the library is opened, read by load_mtl and closed, or
\* ignored when it cannot be opened
ObjMtllib(ps, found) ==
    IF found
    THEN [ps EXCEPT !.trace = IoClose(IoOpen(ps.trace), ps.trace.opened + 1)]
    ELSE ps

\* one line of the OBJ stream
ObjLine(ps, line) ==
    CASE line.t = "v"  -> [ps EXCEPT !.varr = Append(ps.varr, line.x)]
      [] line.t = "vt" -> [ps EXCEPT !.tsz = ps.tsz + 1]
      [] line.t = "vn" -> [ps EXCEPT !.nsz = ps.nsz + 1]
      [] line.t = "f"  ->
            IF Len(ps.varr) = 0 THEN [ps EXCEPT !.failed = TRUE]
            ELSE ObjFaceDone(ObjFaceVerts([ps EXCEPT !.vidx = <<>>, !.fvs = <<>>],
                                          line.fv, 1, Len(ps.varr)))
      [] line.t = "g"  -> ObjGroup(ps, mesh_done(ps.s, ps.mesh))
      [] line.t = "mtllib" -> ObjMtllib(ps, line.found)
      [] line.t = "bad" -> [ps EXCEPT !.failed = TRUE]
      [] OTHER -> ps

RECURSIVE ObjLines(_, _, _)
ObjLines(ps, lines, i) ==
    IF i > Len(lines) \/ ps.failed THEN ps
    ELSE ObjLines(ObjLine(ps, lines[i]), lines, i + 1)

\* the end of mf_load_obj; ps is the parser after the last mesh_done
ObjResult(ps) ==
    [res |-> IF Len(ps.s.meshes) # 0 THEN 0 ELSE -1, s |-> ps.s,
     trace |-> ps.trace]

\* mf_load_obj after the line loop left ps
ObjEnd(ps) ==
    IF ps.failed THEN [res |-> -1, s |-> ps.s, trace |-> ps.trace]
    ELSE ObjResult(ObjMeshDone(ps, mesh_done(ps.s, ps.mesh)))

\* mf_load_obj: success is decided by the scene holding a mesh at the end
mf_load_obj(s, file) == ObjEnd(ObjLines(ObjStart(s, file.ub), file.lines, 1))

(***************************************************************************)
(* Load dispatcher and post-load pipeline.                                 *)
(***************************************************************************)
MF_APPLY_XFORM == 1
MF_GEN_TANGENTS == 2
MF_NOPROC == 32768

\* flags & bit, for a single-bit mask
HasFlag(flags, bit) == (flags \div bit) % 2 = 1

\* mutant: the rewind reports success and leaves the stream where it was
SeekSet_Stay(pos, offs, fails) ==
    IF fails THEN [res |-> -1, pos |-> pos] ELSE [res |-> offs, pos |-> pos]

\* io->seek(io->file, offs, MF_SEEK_SET) on a stream at pos: the value
\* returned and the position of the stream afterwards
SeekSet(pos, offs, fails) ==
    IF fails THEN [res |-> -1, pos |-> pos] ELSE [res |-> offs, pos |-> offs]

\* the result of a codec that keeps no trace
Untraced(r) == [res |-> r.res, s |-> r.s, trace |-> NoTrace]

\* filefmt[i].load(mf, io)
RunCodec(fmt, s, file) ==
    CASE fmt = MF_FMT_3DS  -> Untraced(mf_load_3ds(s, file))
      [] fmt = MF_FMT_JTF  -> mf_load_jtf(s, file)
      [] fmt = MF_FMT_GLTF -> mf_load_gltf(s, file)
      [] fmt = MF_FMT_STL  -> mf_load_stl(s, file)
      [] fmt = MF_FMT_OBJ  -> mf_load_obj(s, file)

\* The codec loop of mf_load_userio from table entry i.  d carries the
\* scene, the stream position, the codec calls made so far (format, stream
\* position at entry, result) and the number of rewinds made; io gives the
\* offset recorded at entry (fpos), how far a codec moves the stream (adv)
\* and which rewind fails (failat, 0: none).  i is the entry the loop
\* stopped at, MF_NUM_FMT + 1 when it ran out.
RECURSIVE TryCodecs(_, _, _, _)

\* the rewind after entry i has not produced a scene
TryRewind(d, file, io, i, sk) ==
    IF sk.res = -1 THEN [d EXCEPT !.i = i, !.seekfailed = TRUE]
    ELSE TryCodecs([d EXCEPT !.pos = sk.pos, !.nseek = d.nseek + 1],
                   file, io, i + 1)

\* entry i has a codec, which returned r, or faulted and did not return
TryCalled(d, file, io, i, r) ==
    IF r.trace.fault
    THEN [d EXCEPT !.i = i, !.fault = TRUE,
                   !.calls = Append(d.calls, [fmt |-> filefmt[i].fmt,
                                              pos |-> d.pos, res |-> r.res,
                                              trace |-> r.trace])]
    ELSE IF r.res = 0
    THEN [d EXCEPT !.i = i, !.s = r.s, !.pos = d.pos + io.adv,
                   !.calls = Append(d.calls, [fmt |-> filefmt[i].fmt,
                                              pos |-> d.pos, res |-> r.res,
                                              trace |-> r.trace])]
    ELSE TryRewind([d EXCEPT !.s = r.s, !.pos = d.pos + io.adv,
                             !.calls = Append(d.calls, [fmt |-> filefmt[i].fmt,
                                                        pos |-> d.pos,
                                                        res |-> r.res,
                                                        trace |-> r.trace])],
                   file, io, i,
                   SeekSet(d.pos + io.adv, io.fpos, d.nseek + 1 = io.failat))

TryCodecs(d, file, io, i) ==
    IF i > MF_NUM_FMT THEN [d EXCEPT !.i = i]
    ELSE IF filefmt[i].codec
    THEN TryCalled(d, file, io, i, RunCodec(filefmt[i].fmt, d.s, file))
    ELSE TryRewind(d, file, io, i,
                   SeekSet(d.pos, io.fpos, d.nseek + 1 = io.failat))

\* the normals loop: meshes i..num that have no normal array get one
RECURSIVE CalcMissingNormals(_, _, _)
CalcMissingNormals(s, i, num) ==
    IF i > num THEN [res |-> 0, s |-> s]
    ELSE IF s.meshes[i].normal # 0 THEN CalcMissingNormals(s, i + 1, num)
    ELSE LET r == mf_calc_normals(s.meshes[i])
         IN  IF r.res = -1 THEN [res |-> -1, s |-> s]
             ELSE CalcMissingNormals([s EXCEPT !.meshes[i] = r.mesh], i + 1, num)

\* the tangents loop
RECURSIVE GenTangentsFrom(_, _)
GenTangentsFrom(ms, i) ==
    IF i > Len(ms) THEN <<>>
    ELSE <<mf_calc_tangents(ms[i])>> \o GenTangentsFrom(ms, i + 1)

GenTangents(s) == [s EXCEPT !.meshes = GenTangentsFrom(s.meshes, 1)]

\* mf_load_userio from the MF_APPLY_XFORM test on
PostApply(s, flags, steps) ==
    IF HasFlag(flags, MF_APPLY_XFORM)
    THEN [res |-> 0, s |-> mf_apply_xform(s), steps |-> Append(steps, "apply_xform")]
    ELSE [res |-> 0, s |-> s, steps |-> steps]

\* mf_load_userio from the MF_GEN_TANGENTS test on; nr is what the normals
\* loop returned
PostTangents(nr, flags, steps) ==
    IF nr.res = -1 THEN [res |-> -1, s |-> nr.s, steps |-> steps]
    ELSE IF HasFlag(flags, MF_GEN_TANGENTS)
    THEN PostApply(GenTangents(nr.s), flags, Append(steps, "tangents"))
    ELSE PostApply(nr.s, flags, steps)

\* mutant: the MF_NOPROC test is made after the other flags had their say
PostProc_NoprocLast(s, flags) ==
    IF HasFlag(flags, MF_NOPROC) /\ ~HasFlag(flags, MF_APPLY_XFORM)
    THEN [res |-> 0, s |-> s, steps |-> <<"update_xform", "calc_aabox">>]
    ELSE PostTangents(CalcMissingNormals(s, 1, Len(s.meshes)), flags,
                      <<"update_xform", "calc_aabox", "normals">>)

\* mf_load_userio from the MF_NOPROC test on
PostProc(s, flags) ==
    IF HasFlag(flags, MF_NOPROC)
    THEN [res |-> 0, s |-> s, steps |-> <<"update_xform", "calc_aabox">>]
    ELSE PostTangents(CalcMissingNormals(s, 1, Len(s.meshes)), flags,
                      <<"update_xform", "calc_aabox", "normals">>)

\* mf_load_userio after a codec has succeeded: result, scene, steps run
PostLoad(s, flags) == PostProc(calc_aabox(UpdateXformOp(s)), flags)

\* mf_load_userio after the codec loop left d; after a fault nothing is
\* returned to anyone, the scene is the one the faulting codec was given
LoadAfterCodecs(d, flags) ==
    IF d.fault \/ d.seekfailed \/ d.i = MF_NUM_FMT + 1
    THEN [res |-> -1, s |-> d.s, steps |-> <<>>]
    ELSE PostLoad(d.s, flags)

\* the outcome of mf_load_userio with the codec calls it made
LoadOutcome(d, flags) ==
    [calls |-> d.calls, seekfailed |-> d.seekfailed, fault |-> d.fault,
     out |-> LoadAfterCodecs(d, flags)]

\* mf_load_userio(mf, io, flags) as a function of the scene
LoadUserio(s, file, flags, io) ==
    LoadOutcome(TryCodecs([s |-> s, pos |-> io.fpos, calls |-> <<>>,
                           nseek |-> 0, seekfailed |-> FALSE, fault |-> FALSE,
                           i |-> 0],
                          file, io, 1),
                flags)

\* the scene variables take the values of the scene record s
SceneBecomes(s) ==
    /\ parent' = s.parent
    /\ child' = s.child
    /\ num_child' = s.num_child
    /\ matrix' = s.matrix
    /\ global_matrix' = s.global_matrix
    /\ nodes' = s.nodes
    /\ topnodes' = s.topnodes
    /\ meshes' = s.meshes
    /\ node_meshes' = s.node_meshes
    /\ aabox' = s.aabox

\* the state after an mf_load_userio call with the outcome r
LoadReturns(r, file, flags, io) ==
    /\ SceneBecomes(r.out.s)
    /\ load_call' = [kind |-> file.kind, flags |-> flags, fpos |-> io.fpos,
                     calls |-> r.calls, seekfailed |-> r.seekfailed,
                     fault |-> r.fault, lines |-> file.lines,
                     gltf |-> [meshes |-> file.gmeshes, nodes |-> file.gnodes,
                               skip |-> file.gskip, noprims |-> file.gnoprims],
                     had_meshes |-> Len(meshes) # 0,
                     steps |-> r.out.steps, res |-> r.out.res]
    /\ last_op' = "load"
    /\ UNCHANGED bounds_call

mf_load_userio(file, flags, io) ==
    LoadReturns(LoadUserio(SceneState, file, flags, io), file, flags, io)

\* mf_clear(mf): meshes and nodes are freed and the lists emptied; a node
\* allocated afterwards is a fresh one
mf_clear ==
    /\ meshes' = <<>>
    /\ nodes' = <<>>
    /\ topnodes' = <<>>
    /\ parent' = [n \in Nodes |-> NULL]
    /\ child' = [n \in Nodes |-> <<>>]
    /\ num_child' = [n \in Nodes |-> 0]
    /\ matrix' = [n \in Nodes |-> mf_id_matrix]
    /\ global_matrix' = [n \in Nodes |-> mf_id_matrix]
    /\ node_meshes' = [n \in Nodes |-> <<>>]
    /\ last_op' = "clear"
    /\ UNCHANGED <<aabox, load_call, bounds_call>>

\* mf_bounds(mf, bb): the result and the caller's box *bb
mf_bounds ==
    /\ bounds_call' = IF aabox.vmax < aabox.vmin
                      THEN [res |-> -1, bb |-> bounds_call.bb]
                      ELSE [res |-> 0, bb |-> aabox]
    /\ last_op' = "bounds"
    /\ UNCHANGED <<parent, child, num_child, matrix, global_matrix, nodes,
                   topnodes, sceneVars, load_call>>

(***************************************************************************)
(* The size test of mf_load_stl on a raw stream.  A uint32_t is written as *)
(* its two 16-bit halves [hi, lo]; a product or sum that is not reduced    *)
(* mod 2^32 keeps a hi that may exceed 16 bits.                            *)
(***************************************************************************)
U16 == 65536

\* a number below 2^31 as halves
Halves(n) == [hi |-> n \div U16, lo |-> n % U16]

\* nfaces * 50 + 84 over the integers
StlSizeExact(nfaces) ==
    [hi |-> nfaces.hi * 50 + (nfaces.lo * 50 + 84) \div U16,
     lo |-> (nfaces.lo * 50 + 84) % U16]

\* nfaces * 50 + 84 as the code evaluates it, in unsigned 32-bit arithmetic
StlSizeU32(nfaces) ==
    [hi |-> StlSizeExact(nfaces).hi % U16, lo |-> StlSizeExact(nfaces).lo]

\* a <= b for halves
HalvesLeq(a, b) == a.hi < b.hi \/ (a.hi = b.hi /\ a.lo <= b.lo)

\* the complete 50-byte face records a stream of filesz bytes holds after
\* its 84-byte header
StlFacesInFile(filesz) == IF filesz < 84 THEN 0 ELSE (filesz - 84) \div 50

\* the positions read for nf faces
RECURSIVE StlPositions(_)
StlPositions(n) == IF n = 0 THEN <<>> ELSE StlPositions(n - 1) \o <<n % 3>>

\* mf_load_stl on a stream of filesz bytes whose bytes 80..83 hold nfaces:
\* whether the size test passed, the faces decoded, the result and scene
StlLoad(s, nfaces, filesz) ==
    IF filesz < 84 \/ StlSizeU32(nfaces) # Halves(filesz)
    THEN [passed |-> FALSE, decoded |-> 0, res |-> -1, s |-> s]
    ELSE IF ~HalvesLeq(nfaces, Halves(StlFacesInFile(filesz)))
    THEN [passed |-> TRUE, decoded |-> StlFacesInFile(filesz), res |-> -1,
          s |-> s]
    ELSE LET nf == nfaces.lo
             m  == [AddVertices(mf_init_mesh, StlPositions(3 * nf), 1) EXCEPT
                        !.normal = 3 * nf, !.faces = StlFaces(nf, 1)]
             n  == AllocNode(s, 1)
         IN  [passed |-> TRUE, decoded |-> nf, res |-> 0,
              s |-> AddNodeOp(AddMeshOp(NodeAddMeshOp(s, n, Len(s.meshes) + 1),
                                        m), n)]

StlReturns(r, nfaces, filesz) ==
    /\ SceneBecomes(r.s)
    /\ stl_call' = [nfaces |-> nfaces, filesz |-> filesz, passed |-> r.passed,
                    decoded |-> r.decoded, res |-> r.res,
                    added |-> Len(r.s.meshes) - Len(meshes)
                                  + Len(r.s.nodes) - Len(nodes)]
    /\ last_op' = "load_stl"
    /\ UNCHANGED <<load_call, bounds_call>>

LoadStlStream(nfaces, filesz) ==
    StlReturns(StlLoad(SceneState, nfaces, filesz), nfaces, filesz)

InitStl ==
    stl_call = [nfaces |-> Halves(0), filesz |-> 0, passed |-> FALSE,
                decoded |-> 0, res |-> 0, added |-> 0]

(***************************************************************************)
(* Base64 decoder (util.c).  Strings are sequences of character codes, the *)
(* terminating 0 left out.                                                 *)
(***************************************************************************)
b64bits(c) ==
    IF c >= 65 /\ c <= 90 THEN c - 65
    ELSE IF c >= 97 /\ c <= 122 THEN c - 97 + 26
    ELSE IF c >= 48 /\ c <= 57 THEN c - 48 + 52
    ELSE IF c = 43 THEN 62
    ELSE IF c = 47 THEN 63
    ELSE -1

\* the '=' characters the loop of mf_calc_b64_size steps back over
RECURSIVE TrailingPads(_)
TrailingPads(s) ==
    IF s = <<>> \/ s[Len(s)] # 61 THEN 0
    ELSE 1 + TrailingPads(SubSeq(s, 1, Len(s) - 1))

mf_calc_b64_size(s) == ((Len(s) - TrailingPads(s)) * 3) \div 4

\* if(dest < end) *dest = byte; dest++; -- dest is an offset into the
\* buffer of cap bytes, out the bytes written so far
B64Put(st, byte, cap) ==
    [st EXCEPT !.out = IF st.dest < cap THEN Append(@, byte) ELSE @,
               !.dest = @ + 1]

\* the switch on gidx++ & 3; acc is an unsigned char, and the bits or-ed
\* into it are bits it has clear
B64Char(st, bits, cap) ==
    CASE st.gidx % 4 = 0 ->
            [st EXCEPT !.acc = (bits * 4) % 256, !.gidx = @ + 1]
      [] st.gidx % 4 = 1 ->
            [B64Put(st, st.acc + (bits \div 16), cap) EXCEPT
                 !.acc = (bits * 16) % 256, !.gidx = @ + 1]
      [] st.gidx % 4 = 2 ->
            [B64Put(st, st.acc + (bits \div 4), cap) EXCEPT
                 !.acc = (bits * 64) % 256, !.gidx = @ + 1]
      [] st.gidx % 4 = 3 ->
            [B64Put(st, st.acc + bits, cap) EXCEPT !.gidx = @ + 1]

\* the while loop from character i on
RECURSIVE B64Loop(_, _, _, _)
B64Loop(st, str, i, cap) ==
    IF i > Len(str) THEN st
    ELSE IF b64bits(str[i]) = -1 THEN B64Loop(st, str, i + 1, cap)
    ELSE B64Loop(B64Char(st, b64bits(str[i]), cap), str, i + 1, cap)

\* after the loop: a group that is not complete leaves one more byte
B64Flush(st, cap) ==
    IF st.gidx % 4 # 0 THEN B64Put(st, st.acc, cap) ELSE st

\* the decoder on a buffer of cap bytes: the bytes written and *bufsz
B64Decode(str, cap) ==
    LET st == B64Flush(B64Loop([dest |-> 0, out |-> <<>>, acc |-> 0,
                                gidx |-> 0], str, 1, cap), cap)
    IN  [out |-> st.out, count |-> st.dest]

\* mf_b64decode(str, buf, bufsz): with a buffer of the caller its size is
\* *bufsz, without one a buffer of mf_calc_b64_size(str) bytes is allocated
mf_b64decode(str, has_buf, bufsz) ==
    /\ b64_call' =
          LET cap == IF has_buf THEN bufsz ELSE mf_calc_b64_size(str)
              r   == B64Decode(str, cap)
          IN  [str |-> str, has_buf |-> has_buf, cap |-> cap, out |-> r.out,
               count |-> r.count]
    /\ last_op' = "b64decode"
    /\ UNCHANGED <<parent, child, num_child, matrix, global_matrix, nodes,
                   topnodes>>

InitB64 ==
    b64_call = [str |-> <<>>, has_buf |-> FALSE, cap |-> 0, out |-> <<>>,
                count |-> 0]

(***************************************************************************)
(* MTL reader (fmtobj.c, load_mtl).  Of a material the specular colour     *)
(* (one number standing for its three equal components) and the shininess *)
(* are kept.                                                               *)
(***************************************************************************)
\* the lines of a material library: newmtl, Ks and Ns with their value,
\* any other line
NewMtl == [t |-> "newmtl"]
Ks(x) == [t |-> "Ks", x |-> x]
Ns(x) == [t |-> "Ns", x |-> x]

\* mf_init_mtl: a copy of defmtl, specular 0 and shininess 1
mf_init_mtl == [ks |-> 0, ns |-> 1]

\* the loop body of load_mtl; st holds whether a material is being read
\* (has), that material (mtl) and the materials given to mf_add_material
MtlLine(st, line) ==
    CASE line.t = "newmtl" ->
            [st EXCEPT !.added = IF st.has THEN Append(@, st.mtl) ELSE @,
                       !.has = TRUE, !.mtl = mf_init_mtl]
      [] line.t = "Ks" /\ st.has -> [st EXCEPT !.mtl.ks = line.x]
      [] line.t = "Ns" /\ st.has -> [st EXCEPT !.mtl.ns = line.x]
      [] OTHER -> st

RECURSIVE MtlLines(_, _, _)
MtlLines(st, lines, i) ==
    IF i > Len(lines) THEN st ELSE MtlLines(MtlLine(st, lines[i]), lines, i + 1)

\* after the loop: the material being read loses its specular colour when
\* its shininess is below 1, and is added
MtlEnd(st) ==
    IF ~st.has THEN st.added
    ELSE Append(st.added,
                IF st.mtl.ns < 1 THEN [st.mtl EXCEPT !.ks = 0] ELSE st.mtl)

\* load_mtl(mf, io) on a library of the given lines
load_mtl(lines) ==
    /\ mtl_call' =
          [lines |-> lines, res |-> 0,
           added |-> MtlEnd(MtlLines([has |-> FALSE, mtl |-> mf_init_mtl,
                                      added |-> <<>>], lines, 1))]
    /\ last_op' = "load_mtl"
    /\ UNCHANGED <<parent, child, num_child, matrix, global_matrix, nodes,
                   topnodes>>

InitMtl == mtl_call = [lines |-> <<>>, res |-> 0, added |-> <<>>]

(***************************************************************************)
(* OBJ writer (fmtobj.c, write_mesh and mf_save_obj).                      *)
(***************************************************************************)
\* face_vref: the written reference to vertex vidx
face_vref(m, vidx) ==
    FV(vidx + 1, IF m.texcoord # 0 THEN vidx + 1 ELSE 0,
       IF m.normal # 0 THEN vidx + 1 ELSE 0)

RECURSIVE WriteVerts(_, _)
WriteVerts(vs, i) ==
    IF i > Len(vs) THEN <<>> ELSE <<V(vs[i])>> \o WriteVerts(vs, i + 1)

RECURSIVE WriteAttr(_, _)
WriteAttr(line, n) ==
    IF n = 0 THEN <<>> ELSE <<line>> \o WriteAttr(line, n - 1)

RECURSIVE WriteFaces(_, _, _)
WriteFaces(m, voffs, i) ==
    IF i > Len(m.faces) THEN <<>>
    ELSE <<F(<<face_vref(m, voffs + m.faces[i][1]),
               face_vref(m, voffs + m.faces[i][2]),
               face_vref(m, voffs + m.faces[i][3])>>)>>
             \o WriteFaces(m, voffs, i + 1)

\* write_mesh: the "o" and "usemtl" lines, a v line per position, a vn and
\* a vt line per position when the mesh has the array, an f line per face
write_mesh(m, voffs) ==
    <<G, OtherLine>> \o WriteVerts(m.vertex, 1)
        \o (IF m.normal # 0 THEN WriteAttr(VN, Len(m.vertex)) ELSE <<>>)
        \o (IF m.texcoord # 0 THEN WriteAttr(VT, Len(m.vertex)) ELSE <<>>)
        \o WriteFaces(m, voffs, 1)

RECURSIVE WriteMeshes(_, _, _)
WriteMeshes(ms, i, voffs) ==
    IF i > Len(ms) THEN <<>>
    ELSE write_mesh(ms[i], voffs)
             \o WriteMeshes(ms, i + 1, voffs + Len(ms[i].vertex))

\* mf_save_obj(mf, io): the two header lines, the material library when
\* the scene has materials (env.nmtl of them), io has an open callback and
\* the library can be opened, then the meshes
mf_save_obj(s, env) ==
    IF env.nmtl = 0 \/ ~env.has_open \/ ~env.open_ok
    THEN [res |-> 0, trace |-> NoTrace,
          lines |-> <<OtherLine, OtherLine>> \o WriteMeshes(s.meshes, 1, 0)]
    ELSE [res |-> 0, trace |-> IoClose(IoOpen(NoTrace), 1),
          lines |-> <<OtherLine, OtherLine, MtlLib(TRUE)>>
                        \o WriteMeshes(s.meshes, 1, 0)]

\* mf_save_userio(mf, io, MF_FMT_OBJ) with the stream it writes
SaveSceneObj(env) ==
    LET w == mf_save_obj(SceneState, env)
        r == SaveUserio(MF_FMT_OBJ, w.res)
    IN  /\ save_call' = [entry |-> "mf_save_userio", fname |-> <<>>,
                         flags |-> MF_FMT_OBJ, opened |-> TRUE,
                         codec |-> r.codec, res |-> r.res]
        /\ disk' = [written |-> TRUE, lines |-> w.lines, trace |-> w.trace,
                    meshes |-> meshes]
        /\ last_op' = "save"
        /\ UNCHANGED <<parent, child, num_child, matrix, global_matrix, nodes,
                       topnodes>>

\* the caller builds a mesh with mf_alloc_mesh, mf_add_vertex, mf_add_normal,
\* mf_add_texcoord and mf_add_triangle, names it and hands it to
\* mf_add_mesh
AddMeshBuilt(xs, nrm, uv, faces) ==
    /\ meshes' = Append(meshes,
                        [AddVertices(Named(mf_init_mesh), xs, 1) EXCEPT
                             !.normal = nrm, !.texcoord = uv, !.faces = faces])
    /\ last_op' = "add_mesh"
    /\ UNCHANGED <<parent, child, num_child, matrix, global_matrix, nodes,
                   topnodes, node_meshes, aabox, load_call, bounds_call>>

InitDisk ==
    disk = [written |-> FALSE, lines |-> <<>>, trace |-> NoTrace,
            meshes |-> <<>>]

(***************************************************************************)
(* Immediate-mode mesh builder (meshfile.c, mf_begin .. mf_color).         *)
(* m->udata is NULL, the caller's own pointer, or a pointer to one of the  *)
(* immed blocks, written as its 1-based number in immed.                   *)
(***************************************************************************)
MF_TRIANGLES == 3
MF_QUADS == 4

\* the attrmask bits
NORMAL == 1
TANGENT == 2
TEXCOORD == 4
COLOR == 8

\* a pointer the caller keeps in m->udata, to data of its own
UserData == -1

\* mf_clear_mesh(m): the arrays are freed, the box reset, udata is kept
mf_clear_mesh_Keep(m) == m

\* free(m->name): the string is released and the pointer stays as it was
FreeName(name) == IF name = "null" THEN "null" ELSE "freed"

mf_clear_mesh(m) ==
    [mf_init_mesh EXCEPT !.udata = m.udata, !.name = FreeName(m.name)]

\* what ((struct immed*)m->udata)->magic != IM_MAGIC finds.  A pointer to a
\* live block finds the magic; the caller's data holds something else; NULL
\* points at nothing, and reading through it is undefined: the run faults
\* or reads a word that is not the magic (ub).
MagicTest(m, ub) ==
    IF m.udata > 0 THEN "magic"
    ELSE IF m.udata = UserData THEN "other"
    ELSE IF ub = "fault" THEN "fault" ELSE "other"

\* mf_begin(m, prim)
BeginOp(m, blocks, prim) ==
    [mesh |-> [mf_clear_mesh(m) EXCEPT !.udata = Len(blocks) + 1],
     blocks |-> Append(blocks, [prim |-> prim, vnum |-> 0,
                                orig_udata |-> m.udata, attrmask |-> 0])]

\* the sticky attributes mf_vertex pushes along with the position
PushSticky(m, mask) ==
    [m EXCEPT !.normal   = IF HasFlag(mask, NORMAL) THEN @ + 1 ELSE @,
              !.tangent  = IF HasFlag(mask, TANGENT) THEN @ + 1 ELSE @,
              !.texcoord = IF HasFlag(mask, TEXCOORD) THEN @ + 1 ELSE @,
              !.color    = IF HasFlag(mask, COLOR) THEN @ + 1 ELSE @]

\* the primitive mf_vertex emits once prim vertices are in: a triangle, or
\* a quad as two triangles, over the last prim positions of m
EmitPrim(m, prim) ==
    LET vidx == Len(m.vertex) - prim
    IN  IF prim = 4
        THEN [m EXCEPT !.faces = @ \o << <<vidx, vidx + 1, vidx + 2>>,
                                         <<vidx, vidx + 2, vidx + 3>> >>]
        ELSE [m EXCEPT !.faces = Append(@, <<vidx, vidx + 1, vidx + 2>>)]

\* mf_vertex(m, x, ..) in an open session whose block is im
VertexOp(m, im, x) ==
    LET m1 == PushSticky(mf_add_vertex(m, x), im.attrmask)
    IN  IF im.vnum + 1 >= im.prim
        THEN [mesh |-> EmitPrim(m1, im.prim), im |-> [im EXCEPT !.vnum = 0]]
        ELSE [mesh |-> m1, im |-> [im EXCEPT !.vnum = @ + 1]]

\* x | bit
SetBit(x, bit) == IF HasFlag(x, bit) THEN x ELSE x + bit

\* the record of a builder call: the call, whether a session was open when
\* it was made, its result, whether it faulted, and the number of mf_vertex
\* calls made since the last mf_begin (-1 once an mf_end has closed a
\* session after it)
ImCall(op, open, res, fault, nverts) ==
    [op |-> op, open |-> open, res |-> res, fault |-> fault, nverts |-> nverts,
     dfree |-> FALSE]

\* free() of a pointer to released storage is undefined: the run faults or
\* goes on (ub); c is the call as it is recorded otherwise
FreeAgain(c, name, ub) ==
    IF name = "freed"
    THEN [c EXCEPT !.dfree = TRUE, !.fault = (ub = "fault")]
    ELSE c

\* a session is open on the mesh
SessionOpen == bmesh.udata > 0

mf_begin(prim, ub) ==
    /\ ~im_call.fault
    /\ bmesh' = BeginOp(bmesh, immed, prim).mesh
    /\ immed' = BeginOp(bmesh, immed, prim).blocks
    /\ im_call' = FreeAgain(ImCall("begin", SessionOpen, 0, FALSE, 0),
                            bmesh.name, ub)

\* mf_end(m): the test reads through m->udata like the others
mf_end(ub) ==
    /\ ~im_call.fault
    /\ LET found == MagicTest(bmesh, ub)
       IN  /\ bmesh' = IF found = "magic"
                       THEN [bmesh EXCEPT !.udata = immed[bmesh.udata].orig_udata]
                       ELSE bmesh
           /\ im_call' = ImCall("end", SessionOpen, 0, found = "fault",
                                IF found = "magic" THEN -1 ELSE im_call.nverts)
    /\ UNCHANGED immed

mf_vertex(ub) ==
    /\ ~im_call.fault
    /\ LET found == MagicTest(bmesh, ub)
       IN  IF found = "magic"
           THEN LET r == VertexOp(bmesh, immed[bmesh.udata], Len(bmesh.vertex))
                IN  /\ bmesh' = r.mesh
                    /\ immed' = [immed EXCEPT ![bmesh.udata] = r.im]
                    /\ im_call' = ImCall("vertex", TRUE, 0, FALSE,
                                         IF im_call.nverts >= 0
                                         THEN im_call.nverts + 1 ELSE -1)
           ELSE /\ im_call' = ImCall("vertex", SessionOpen, -1, found = "fault",
                                     im_call.nverts)
                /\ UNCHANGED <<bmesh, immed>>

\* mf_normal, mf_tangent, mf_texcoord, mf_color: IMMED(m), then the value
\* is kept and its attrmask bit set
StickyAttr(op, bit, ub) ==
    /\ ~im_call.fault
    /\ LET found == MagicTest(bmesh, ub)
       IN  /\ immed' = IF found = "magic"
                       THEN [immed EXCEPT ![bmesh.udata].attrmask = SetBit(@, bit)]
                       ELSE immed
           /\ im_call' = ImCall(op, SessionOpen, 0, found = "fault",
                                im_call.nverts)
    /\ UNCHANGED bmesh

mf_normal(ub) == StickyAttr("normal", NORMAL, ub)
mf_tangent(ub) == StickyAttr("tangent", TANGENT, ub)
mf_texcoord(ub) == StickyAttr("texcoord", TEXCOORD, ub)
mf_color(ub) == StickyAttr("color", COLOR, ub)

\* the caller fills the mesh without the builder: three positions with
\* normals and one triangle, through mf_add_vertex, mf_add_normal and
\* mf_add_triangle
AddTriangleDirect ==
    /\ ~im_call.fault /\ ~SessionOpen /\ Len(bmesh.vertex) = 0
    /\ bmesh' = [AddVertices(bmesh, <<0, 1, 2>>, 1) EXCEPT
                     !.normal = 3, !.faces = << <<0, 1, 2>> >>]
    /\ im_call' = ImCall("direct", FALSE, 0, FALSE, im_call.nverts)
    /\ UNCHANGED immed

\* the caller stores a pointer of its own in m->udata
SetUdata ==
    /\ ~im_call.fault /\ bmesh.udata = NULL
    /\ bmesh' = [bmesh EXCEPT !.udata = UserData]
    /\ im_call' = ImCall("udata", FALSE, 0, FALSE, im_call.nverts)
    /\ UNCHANGED immed

\* the caller names the mesh: m->name = strdup(...), over a pointer that
\* holds no live string
SetName ==
    /\ ~im_call.fault /\ bmesh.name # "live"
    /\ bmesh' = Named(bmesh)
    /\ im_call' = ImCall("name", SessionOpen, 0, FALSE, im_call.nverts)
    /\ UNCHANGED immed

\* mf_free_mesh(m) outside a session, followed by mf_alloc_mesh for the
\* next mesh: mf_destroy_mesh frees the name and the arrays
FreeMesh(ub) ==
    /\ ~im_call.fault /\ ~SessionOpen
    /\ bmesh' = mf_init_mesh
    /\ im_call' = FreeAgain(ImCall("free", FALSE, 0, FALSE, 0), bmesh.name, ub)
    /\ UNCHANGED immed

\* a mesh from mf_alloc_mesh, no builder call made
InitImmed ==
    /\ bmesh = mf_init_mesh
    /\ immed = <<>>
    /\ im_call = ImCall("none", FALSE, 0, FALSE, 0)

(***************************************************************************)
(* JTF reader on a raw stream (fmtjtf.c, with io_read of meshfile.c).  A   *)
(* stream is its length in bytes, whether its first four bytes are the     *)
(* magic, and the face count its header holds.                             *)
(***************************************************************************)
\* sizeof(struct jtf_header), sizeof(struct jtf_face)
JTF_HDR == 12
JTF_FACE == 96

\* io_read: fread of sz bytes with left bytes to the end of the stream;
\* the count of bytes read, -1 when none was read
io_read(left, sz) ==
    IF left <= 0 \/ sz <= 0 THEN -1 ELSE IF left < sz THEN left ELSE sz

\* io->read(...) < sizeof x: the int result is converted to size_t for the
\* comparison, where -1 is the largest value there is
ReadShort(ret, sz) == ret >= 0 /\ ret < sz

\* the face loop of mf_load_jtf from face i (0-based) with the stream at
\* pos: the result, and the number of faces added from a buffer that no
\* read had filled (stale)
RECURSIVE JtfReadFaces(_, _, _, _, _)
JtfReadFaces(flen, nfaces, i, pos, stale) ==
    IF i >= nfaces THEN [res |-> 0, built |-> nfaces, stale |-> stale]
    ELSE LET ret == io_read(flen - pos, JTF_FACE)
         IN  IF ReadShort(ret, JTF_FACE)
             THEN [res |-> -1, built |-> 0, stale |-> 0]
             ELSE JtfReadFaces(flen, nfaces, i + 1,
                               IF ret = -1 THEN pos ELSE pos + ret,
                               IF ret = -1 THEN stale + 1 ELSE stale)

\* the header of mf_load_jtf: when the read delivered nothing, hdr holds
\* whatever the stack held, and the magic test and the face count are what
\* that happens to be (ub)
JtfReadHeader(st, ub) ==
    LET ret == io_read(st.flen, JTF_HDR)
    IN  IF ReadShort(ret, JTF_HDR) THEN [res |-> -1, nfaces |-> 0, pos |-> ret]
        ELSE IF ret = -1
        THEN [res |-> IF ub.magic THEN 0 ELSE -1, nfaces |-> ub.nfaces,
              pos |-> 0]
        ELSE [res |-> IF st.magic THEN 0 ELSE -1, nfaces |-> st.nfaces,
              pos |-> ret]

\* mf_load_jtf(mf, io) on the stream st
JtfLoad(s, st, ub) ==
    LET h == JtfReadHeader(st, ub)
        f == JtfReadFaces(st.flen, h.nfaces, 0, h.pos, 0)
        m == [AddVertices(Named(mf_init_mesh), StlPositions(3 * f.built), 1)
                 EXCEPT !.normal = 3 * f.built, !.texcoord = 3 * f.built,
                        !.faces = JtfFaces(f.built, 1)]
        n == AllocNode(s, 1)
    IN  IF h.res = -1 \/ f.res = -1
        THEN [res |-> -1, built |-> 0, stale |-> 0, s |-> s]
        ELSE [res |-> 0, built |-> f.built, stale |-> f.stale,
              s |-> AddNodeOp(AddMeshOp(NodeAddMeshOp(s, n, Len(s.meshes) + 1),
                                        m), n)]

JtfReturns(r, st) ==
    /\ SceneBecomes(r.s)
    /\ raw_call' = [op |-> "load_jtf", st |-> st, res |-> r.res,
                    built |-> r.built, stale |-> r.stale,
                    added |-> Len(r.s.meshes) - Len(meshes)
                                  + Len(r.s.nodes) - Len(nodes)]
    /\ last_op' = "load_jtf"
    /\ UNCHANGED <<load_call, bounds_call>>

LoadJtfStream(st, ub) == JtfReturns(JtfLoad(SceneState, st, ub), st)

InitRaw == raw_call = [op |-> "none"]

(***************************************************************************)
(* The chunk loop of mf_load_3ds on a raw stream (fmt3ds.c).  The stream   *)
(* is a sequence of cells of CHDR_SIZE bytes, each read as a chunk header  *)
(* (id, len) when the stream stands on it; lengths are multiples of        *)
(* CHDR_SIZE, so that the stream always stands on a cell boundary.         *)
(***************************************************************************)
CHDR_SIZE == 6

\* iterations of the chunk loop are counted up to MaxIters
MaxIters == 4

\* read_chunk(ck, par, io) with the stream at pos: -1 when the header would
\* end after the parent; else the two reads into ck->id and ck->len, whose
\* results are tested with ReadShort.  At the end of the stream both return
\* -1, the tests do not fire and ck keeps what it held.
read_chunk(cells, pos, ck, has_par, par_end) ==
    IF has_par /\ pos + CHDR_SIZE > par_end
    THEN [res |-> -1, pos |-> pos, ck |-> ck]
    ELSE IF ReadShort(io_read(CHDR_SIZE * Len(cells) - pos, 2), 2)
    THEN [res |-> -1, pos |-> pos, ck |-> ck]
    ELSE IF pos >= CHDR_SIZE * Len(cells)
    THEN [res |-> 0, pos |-> pos,
          ck |-> [id |-> ck.id, len |-> ck.len, endpos |-> pos + ck.len]]
    ELSE LET c == cells[(pos \div CHDR_SIZE) + 1]
         IN  [res |-> 0, pos |-> pos + CHDR_SIZE,
              ck |-> [id |-> c.id, len |-> c.len, endpos |-> pos + c.len]]

\* skip_chunk(ck, io): the position after the seek
skip_chunk(ck) == ck.endpos

\* mf_load_3ds up to its loop: the root chunk is read and must be the main
\* chunk; the local ck holds whatever the stack held (ub)
Load3dsBegin(cells, ub) ==
    LET r == read_chunk(cells, 0, ub, FALSE, 0)
    IN  raw_call' = [op |-> "load_3ds", cells |-> cells,
                     at |-> IF r.res = -1 \/ r.ck.id # "main"
                            THEN "failed" ELSE "loop",
                     pos |-> r.pos, root_end |-> r.ck.endpos,
                     ck |-> [ub EXCEPT !.endpos = 0], iters |-> 0]

\* one iteration of the loop of mf_load_3ds: read_chunk, then the switch on
\* ck.id (the editor chunk is entered, any other chunk is skipped)
Load3dsIter ==
    /\ raw_call.op = "load_3ds" /\ raw_call.at = "loop"
    /\ LET r == read_chunk(raw_call.cells, raw_call.pos, raw_call.ck, TRUE,
                           raw_call.root_end)
       IN  raw_call' =
               IF r.res = -1 THEN [raw_call EXCEPT !.at = "done"]
               ELSE [raw_call EXCEPT
                        !.ck = r.ck,
                        !.pos = IF r.ck.id = "3ded" THEN r.pos
                                ELSE skip_chunk(r.ck),
                        !.iters = IF @ < MaxIters THEN @ + 1 ELSE @]

\* ---- the 3DS writer (fmt3ds.c) ----------------------------------------
\* A chunk as written: the value stored in its length field, the payload
\* bytes written directly into it, and the chunks written inside it.
Chunk(id, len, own, kids) == [id |-> id, len |-> len, own |-> own, kids |-> kids]

\* the bytes a chunk takes in the file, header included
RECURSIVE Written(_)
Written(c) ==
    LET RECURSIVE Sum(_)
        Sum(i) == IF i > Len(c.kids) THEN 0 ELSE Written(c.kids[i]) + Sum(i + 1)
    IN  CHDR_SIZE + c.own + Sum(1)

\* len = io->seek(io->file, 0, MF_SEEK_CUR) - fpos, written back at fpos + 2
PatchLen(c) == [c EXCEPT !.len = Written(c)]

\* sizeof(float)
SIZEOF_FLOAT == 4

write_chunkhdr(id, sz) == Chunk(id, sz, 0, <<>>)

write_chunk_dword(id, sz) ==
    [write_chunkhdr(id, IF sz = 0 THEN CHDR_SIZE + 4 ELSE sz) EXCEPT !.own = 4]

write_chunk_flt(id, sz) ==
    [write_chunkhdr(id, IF sz = 0 THEN CHDR_SIZE + 4 ELSE sz)
        EXCEPT !.own = SIZEOF_FLOAT]

\* str stands for strlen(str)
write_chunk_str(id, sz, str) ==
    LET len == str + 1
    IN  [write_chunkhdr(id, IF sz = 0 THEN CHDR_SIZE + len ELSE sz)
            EXCEPT !.own = len]

write_mtlcolor(id) ==
    [write_chunkhdr(id, CHDR_SIZE * 2 + 3) EXCEPT
        !.kids = << [write_chunkhdr("RGB", CHDR_SIZE + 3) EXCEPT !.own = 3] >>]

write_mtlperc(id) ==
    [write_chunkhdr(id, CHDR_SIZE * 2 + 3) EXCEPT
        !.kids = << [write_chunkhdr("PERCENT_FLT", CHDR_SIZE + 3)
                        EXCEPT !.own = SIZEOF_FLOAT] >>]

write_map(id, name) ==
    [write_chunkhdr(id, CHDR_SIZE * 2 + name + 1 + (CHDR_SIZE + 4) * 5) EXCEPT
        !.kids = << write_chunk_str("MAP_FILENAME", 0, name),
                    write_chunk_flt("MAP_UOFFS", 0),
                    write_chunk_flt("MAP_VOFFS", 0),
                    write_chunk_flt("MAP_USCALE", 0),
                    write_chunk_flt("MAP_VSCALE", 0),
                    write_chunk_flt("MAP_UVROT", 0) >>]

\* mtl.name is strlen(mtl->name), mtl.maps the lengths of the names of the
\* texture maps the material has, in mapmap order
write_mtl(mtl) ==
    LET attrs == << write_chunk_str("MTL_NAME", 0, mtl.name),
                    write_mtlcolor("MTL_AMBIENT"),
                    write_mtlcolor("MTL_DIFFUSE"),
                    write_mtlcolor("MTL_SPECULAR"),
                    write_mtlperc("MTL_SHININESS"),
                    write_mtlperc("MTL_SHINSTR") >>
        illum == IF mtl.selfillum THEN << write_mtlperc("MTL_SELFILLUM") >>
                 ELSE <<>>
        maps  == [i \in 1..Len(mtl.maps) |-> write_map("MAP", mtl.maps[i])]
    IN  PatchLen([write_chunkhdr("MATERIAL", 0) EXCEPT
                     !.kids = attrs \o illum \o maps])

\* write_mesh of fmt3ds.c: the chunks it adds to the editor chunk, and
\* whether assert(len == len2) holds
write_mesh_3ds(obj) ==
    IF obj.num_verts >= 65536 \/ obj.num_faces >= 65536
    THEN [chunks |-> <<>>, assert_ok |-> TRUE]
    ELSE
    LET vertsz  == CHDR_SIZE + 2 + obj.num_verts * 3 * SIZEOF_FLOAT
        mtlsz   == CHDR_SIZE + obj.mtlname + 3 + obj.num_faces * 2
        uvsz    == IF obj.texcoord
                   THEN CHDR_SIZE + 2 + obj.num_verts * 2 * SIZEOF_FLOAT ELSE 0
        lcssz   == CHDR_SIZE + 12 * SIZEOF_FLOAT
        facesz  == CHDR_SIZE + 2 + obj.num_faces * 8 + mtlsz
        meshlen == CHDR_SIZE + vertsz + facesz + lcssz + uvsz
        len     == CHDR_SIZE + obj.nodename + 1 + meshlen
        vertlist == [write_chunkhdr("VERTLIST", vertsz) EXCEPT
                        !.own = 2 + obj.num_verts * 3 * SIZEOF_FLOAT]
        facemtl  == [write_chunk_str("FACEMTL", mtlsz, obj.mtlname) EXCEPT
                        !.own = @ + 2 + obj.num_faces * 2]
        facedesc == [write_chunkhdr("FACEDESC", facesz) EXCEPT
                        !.own = 2 + obj.num_faces * 4 * 2,
                        !.kids = << facemtl >>]
        uvlist   == IF obj.texcoord
                    THEN << [write_chunkhdr("UVLIST", uvsz) EXCEPT
                               !.own = 2 + obj.num_verts * 2 * SIZEOF_FLOAT] >>
                    ELSE <<>>
        lcs   == [write_chunkhdr("MESHMATRIX", lcssz) EXCEPT
                        !.own = 4 * 3 * SIZEOF_FLOAT]
        trimesh  == [write_chunkhdr("TRIMESH", meshlen) EXCEPT
                        !.kids = << vertlist, facedesc >> \o uvlist \o << lcs >>]
        object   == [write_chunk_str("OBJECT", len, obj.nodename) EXCEPT
                        !.kids = << trimesh >>]
    IN  [chunks |-> << object >>, assert_ok |-> len = Written(object)]

RECURSIVE WriteObjects(_, _)
WriteObjects(objs, i) ==
    IF i > Len(objs) THEN <<>>
    ELSE write_mesh_3ds(objs[i]).chunks \o WriteObjects(objs, i + 1)

write_3ded(scene) ==
    PatchLen([write_chunkhdr("3DEDITOR", 0) EXCEPT
        !.kids = << write_chunk_dword("MESHVER", CHDR_SIZE + 4) >>
                     \o [i \in 1..Len(scene.mtls) |-> write_mtl(scene.mtls[i])]
                     \o WriteObjects(scene.objs, 1)])

\* the main chunk's length is patched with the size of the file
mf_save_3ds(scene) ==
    PatchLen([write_chunkhdr("MAIN", 0) EXCEPT
        !.kids = << write_chunk_dword("VERSION", CHDR_SIZE + 4),
                    write_3ded(scene) >>])

Save3ds(scene) ==
    raw_call' = [op |-> "save_3ds", scene |-> scene,
                 file |-> mf_save_3ds(scene),
                 asserts |-> \A i \in 1..Len(scene.objs) :
                                 write_mesh_3ds(scene.objs[i]).assert_ok]

(***************************************************************************)
(* Specifications.                                                         *)
(***************************************************************************)
InitGraph ==
    /\ parent = [n \in Nodes |-> NULL]
    /\ child = [n \in Nodes |-> <<>>]
    /\ num_child = [n \in Nodes |-> 0]
    /\ matrix = [n \in Nodes |-> mf_id_matrix]
    /\ global_matrix = [n \in Nodes |-> mf_id_matrix]
    /\ nodes = <<>>
    /\ topnodes = <<>>
    /\ last_op = "init"

InitSave ==
    save_call = [entry |-> "none", fname |-> <<>>, flags |-> 0,
                 opened |-> FALSE, codec |-> 0, res |-> 0]

InitScene ==
    /\ meshes = <<>>
    /\ node_meshes = [n \in Nodes |-> <<>>]
    /\ aabox = init_aabox

\* no load made yet; the caller's box for mf_bounds is zeroed
InitLoad ==
    /\ load_call = [kind |-> "nocall", flags |-> 0, fpos |-> 0, calls |-> <<>>,
                    seekfailed |-> FALSE, fault |-> FALSE, lines |-> <<>>,
                    gltf |-> [meshes |-> <<>>, nodes |-> <<>>, skip |-> {},
                              noprims |-> {}],
                    had_meshes |-> FALSE, steps |-> <<>>, res |-> 0]
    /\ bounds_call = [res |-> 0, bb |-> [vmin |-> 0, vmax |-> 0]]

Init ==
    /\ InitGraph /\ ncalls = 0 /\ InitSave /\ InitScene /\ InitLoad
    /\ InitImmed /\ InitDisk /\ InitStl /\ InitB64 /\ InitMtl /\ InitRaw

\* the scene graph API driven by any caller, in runs of any length
Next ==
    \/ \E n \in Nodes : mf_add_node(n) /\ UNCHANGED <<ncalls, saveVars, loadVars, auxVars>>
    \/ \E n, c \in Nodes : mf_node_add_child(n, c) /\ UNCHANGED <<ncalls, saveVars, loadVars, auxVars>>
    \/ \E n, c \in Nodes : mf_node_remove_child(n, c) /\ UNCHANGED <<ncalls, saveVars, loadVars, auxVars>>

Spec == Init /\ [][Next]_vars

\* A caller that builds a scene: it never makes a node its own ancestor, and
\* it asks for the transforms once every node it has linked is registered.
\* Runs are bounded by the number of calls.
NodeMatrices == {TransMatrix(1), ScaleMatrix(2)}

Counted ==
    ncalls < MaxCalls /\ ncalls' = ncalls + 1 /\ UNCHANGED <<saveVars, loadVars, auxVars>>

NoCycle(n, c) == n \notin Descendants({c}, NumNodes)

AllLinkedRegistered ==
    \A n \in Nodes :
        (parent[n] # NULL \/ child[n] # <<>>) => n \in Range(nodes)

NextScene ==
    \/ \E n \in Nodes : Counted /\ mf_add_node(n)
    \/ \E n, c \in Nodes : Counted /\ NoCycle(n, c) /\ mf_node_add_child(n, c)
    \/ \E n, c \in Nodes : Counted /\ mf_node_remove_child(n, c)
    \/ \E n \in Nodes, m \in NodeMatrices : Counted /\ SetMatrix(n, m)
    \/ Counted /\ AllLinkedRegistered /\ mf_update_xform

SpecScene == Init /\ [][NextScene]_vars

\* Saving: file names are a stem followed by nothing, a lone dot, or a dot
\* and an extension in any mix of cases.
RECURSIVE CaseVariants(_)
CaseVariants(s) ==
    IF s = <<>> THEN {<<>>}
    ELSE LET c == s[1]
             heads == IF c >= 97 /\ c <= 122 THEN {c, c - 32} ELSE {c}
         IN  {<<h>> \o t : h \in heads, t \in CaseVariants(Tail(s))}

\* "glb", "ob", "objx", "tl"
OtherExts == {<<103, 108, 98>>, <<111, 98>>, <<111, 98, 106, 120>>, <<116, 108>>}

LowerExts == {sfx_3ds, sfx_jtf, sfx_gltf, sfx_stl, sfx_obj}

\* "3DS", "JTF", "STL", and every mix of cases of "gltf" and "obj"
MixedExts ==
    {<<51, 68, 83>>, <<74, 84, 70>>, <<83, 84, 76>>}
        \cup CaseVariants(sfx_gltf) \cup CaseVariants(sfx_obj)

\* "", "m", "m.obj", "d.stl/m"
Stems == {<<>>, <<109>>, <<109, 46>> \o sfx_obj,
          <<100, 46>> \o sfx_stl \o <<47, 109>>}

FileNames ==
    Stems \cup {st \o <<46>> : st \in Stems}
          \cup {st \o <<46>> \o e : st \in Stems, e \in LowerExts \cup OtherExts}
          \cup {<<109, 46>> \o sfx_obj \o <<46>> \o e : e \in MixedExts}

\* format tags 0..6, and tags 0 and 3 under a higher flag bit
SaveFlagWords == (0..MF_NUM_FMT) \cup {256, 259}

\* the codec choice reads nothing an earlier call wrote: runs are bounded by
\* the number of save calls
CountedSave ==
    ncalls < MaxSaves /\ ncalls' = ncalls + 1 /\ UNCHANGED <<loadVars, auxVars>>

NextSave ==
    \/ \E f \in FileNames, fl \in SaveFlagWords, cr \in {0, -1} :
          CountedSave /\ mf_save(f, fl, TRUE, cr)
    \/ \E f \in FileNames, fl \in SaveFlagWords :
          CountedSave /\ mf_save(f, fl, FALSE, -1)
    \/ \E fl \in SaveFlagWords, cr \in {0, -1} :
          CountedSave /\ mf_save_userio(fl, cr)

SpecSave == Init /\ [][NextSave]_vars

\* Loading: the streams handed to mf_load_userio, by what they decode to.
File(kind, ok, objs, tris, gmeshes, gnodes, lines) ==
    [kind |-> kind, ok |-> ok, objs |-> objs, tris |-> tris,
     gmeshes |-> gmeshes, gnodes |-> gnodes, lines |-> lines, ub |-> NoUb,
     gbufs |-> <<>>, gskip |-> {}, gnoprims |-> {}]

\* one triangle over the vertices 0, 1, 2, and one whose positions are
\* 0, 1, 2
Tri == << <<0, 1, 2>> >>

\* 3DS object chunks
Obj3ds(verts, nuv, faces, has_mm, mm, ok) ==
    [verts |-> verts, nuv |-> nuv, faces |-> faces, has_mm |-> has_mm,
     mm |-> mm, ok |-> ok]

O_plain   == Obj3ds(<<0, 1, 2>>, 0, Tri, FALSE, mf_id_matrix, TRUE)
O_uv      == Obj3ds(<<0, 1, 2>>, 3, Tri, FALSE, mf_id_matrix, TRUE)
O_uvshort == Obj3ds(<<0, 1, 2>>, 1, Tri, FALSE, mf_id_matrix, TRUE)
O_moved   == Obj3ds(<<0, 1, 2>>, 0, Tri, TRUE, TransMatrix(1), TRUE)
O_flipped == Obj3ds(<<0, 1, 2>>, 0, Tri, TRUE, ScaleMatrix(-1), TRUE)
O_flat    == Obj3ds(<<0, 1, 2>>, 0, Tri, TRUE, ScaleMatrix(0), TRUE)
O_nofaces == Obj3ds(<<0, 1, 2>>, 0, <<>>, FALSE, mf_id_matrix, TRUE)
O_empty   == Obj3ds(<<>>, 0, <<>>, FALSE, mf_id_matrix, TRUE)
O_cut     == Obj3ds(<<0>>, 0, <<>>, FALSE, mf_id_matrix, FALSE)

Files3ds ==
    {File("3ds", TRUE, objs, <<>>, <<>>, <<>>, <<>>) :
        objs \in {<<>>, <<O_plain>>, <<O_uv>>, <<O_uvshort>>, <<O_moved>>,
                  <<O_flipped>>, <<O_flat>>, <<O_nofaces>>, <<O_empty>>,
                  <<O_cut>>, <<O_plain, O_cut>>, <<O_uv, O_moved>>}}

FilesJtf ==
    {File("jtf", TRUE, <<>>, <<>>, <<>>, <<>>, <<>>),
     File("jtf", TRUE, <<>>, Tri, <<>>, <<>>, <<>>),
     File("jtf", FALSE, <<>>, Tri, <<>>, <<>>, <<>>)}

FilesStl ==
    {File("stl", TRUE, <<>>, <<>>, <<>>, <<>>, <<>>),
     File("stl", TRUE, <<>>, Tri, <<>>, <<>>, <<>>),
     File("stl", FALSE, <<>>, Tri, <<>>, <<>>, <<>>)}

\* glTF primitives and nodes
Prim(pos, normal, tangent, texcoord, color, faces, ok) ==
    [pos |-> pos, normal |-> normal, tangent |-> tangent,
     texcoord |-> texcoord, color |-> color, faces |-> faces, ok |-> ok,
     obj |-> TRUE]

P_plain   == Prim(<<0, 1, 2>>, 0, 0, 0, 0, Tri, TRUE)
P_full    == Prim(<<0, 1, 2>>, 3, 3, 3, 3, Tri, TRUE)
P_uneven  == Prim(<<0, 1, 2>>, 2, 0, 1, 4, Tri, TRUE)
P_soup    == Prim(<<0, 1, 2>>, 3, 0, 0, 0, <<>>, TRUE)
P_skipped == Prim(<<>>, 0, 0, 0, 0, <<>>, FALSE)
\* an element of "primitives" that is not a JSON object
P_notobj  == [P_skipped EXCEPT !.obj = FALSE]

GNode(mesh, m, children) == [mesh |-> mesh, matrix |-> m, children |-> children]

FilesGltf ==
    {File("gltf", TRUE, <<>>, <<>>, gm[1], gm[2], <<>>) :
        gm \in {
          << <<>>, <<>> >>,
          << << <<P_plain>> >>, << GNode(0, mf_id_matrix, <<>>) >> >>,
          << << <<P_plain>> >>, << GNode(0, TransMatrix(1), <<>>) >> >>,
          << << <<P_plain>> >>,
             << GNode(0, TransMatrix(1), <<>>), GNode(0, TransMatrix(1), <<>>) >> >>,
          << << <<P_full>> >>,
             << GNode(-1, ScaleMatrix(2), <<1>>), GNode(0, TransMatrix(1), <<>>) >> >>,
          << << <<P_full>> >>,
             << GNode(0, TransMatrix(1), <<>>), GNode(-1, ScaleMatrix(2), <<0, 2>>) >> >>,
          << << <<P_uneven>> >>, << GNode(0, mf_id_matrix, <<>>) >> >>,
          << << <<P_plain, P_skipped>>, <<P_soup>> >>,
             << GNode(1, mf_id_matrix, <<>>) >> >>,
          << << <<P_plain>> >>, <<>> >> }}

V012 == <<V(0), V(1), V(2)>>
F123 == F(<<FV(1, 0, 0), FV(2, 0, 0), FV(3, 0, 0)>>)

FilesObj ==
    {File("obj", TRUE, <<>>, <<>>, <<>>, <<>>, lines) :
        lines \in {
          V012 \o <<F123>>,
          V012 \o <<OtherLine, F(<<FV(-3, 0, 0), FV(-2, 0, 0), FV(-1, 0, 0)>>)>>,
          V012 \o <<VN, VT, F(<<FV(1, 1, 1), FV(2, 1, 1), FV(3, 1, 1)>>)>>,
          V012 \o <<VN, F(<<FV(1, 0, 1), FV(2, 0, 0), FV(3, 0, 0)>>)>>,
          V012 \o <<VT, F(<<FV(1, 1, 0), FV(2, 0, 0), FV(3, 0, 0)>>)>>,
          V012 \o <<V(3), F(<<FV(1, 0, 0), FV(2, 0, 0), FV(3, 0, 0), FV(4, 0, 0)>>)>>,
          V012 \o <<G, F123, G, F123>>,
          V012 \o <<F123, G, BadLine>>,
          <<F123>> }}

\* streams no codec has a signature for: empty, lines the OBJ reader skips,
\* a line the OBJ reader rejects
FilesNone ==
    {File("none", TRUE, <<>>, <<>>, <<>>, <<>>, lines) :
        lines \in {<<>>, <<OtherLine>>, <<V(0), VN>>, <<BadLine>>}}

LoadFiles == Files3ds \cup FilesJtf \cup FilesStl \cup FilesGltf \cup FilesObj
                 \cup FilesNone

LoadFlagWords ==
    {0, MF_APPLY_XFORM, MF_GEN_TANGENTS, MF_APPLY_XFORM + MF_GEN_TANGENTS,
     MF_NOPROC, MF_NOPROC + MF_APPLY_XFORM}

\* a seekable stream read from its start
LoadIo == {[fpos |-> 0, adv |-> 1, failat |-> 0]}

\* the number of "g" lines among lines i..
RECURSIVE GroupLines(_, _)
GroupLines(lines, i) ==
    IF i > Len(lines) THEN 0
    ELSE (IF lines[i].t = "g" THEN 1 ELSE 0) + GroupLines(lines, i + 1)

\* the most nodes a load of the file allocates: one per 3DS object, one per
\* glTF node, one for a JTF or STL mesh, one per OBJ group with faces
NodesNeeded(file) ==
    Len(file.objs) + Len(file.gnodes)
        + (IF file.kind \in {"jtf", "stl"} THEN 1 ELSE 0)
        + (IF \E i \in 1..Len(file.lines) : file.lines[i].t = "f"
           THEN 1 + GroupLines(file.lines, 1) ELSE 0)

\* memory holds NumNodes nodes
Fits(file) == Len(nodes) + NodesNeeded(file) <= NumNodes

CountedLoad == ncalls < MaxLoads /\ ncalls' = ncalls + 1 /\ UNCHANGED <<saveVars, auxVars>>

NextLoad ==
    \/ \E f \in LoadFiles, fl \in LoadFlagWords, io \in LoadIo :
          CountedLoad /\ Fits(f) /\ mf_load_userio(f, fl, io)
    \/ mf_clear /\ UNCHANGED <<ncalls, saveVars, auxVars>>
    \/ mf_bounds /\ UNCHANGED <<ncalls, saveVars, auxVars>>

SpecLoad == Init /\ [][NextLoad]_vars

\* The dispatcher under every behaviour of the stream: one stream of each
\* kind, read from offset 0 or 2, codecs that move the stream or leave it,
\* any one of the rewinds failing.
DispatchFiles ==
    {File("3ds", TRUE, <<O_plain>>, <<>>, <<>>, <<>>, <<>>),
     File("3ds", TRUE, <<O_cut>>, <<>>, <<>>, <<>>, <<>>),
     File("jtf", TRUE, <<>>, Tri, <<>>, <<>>, <<>>),
     File("gltf", TRUE, <<>>, <<>>, << <<P_plain>> >>,
          << GNode(0, mf_id_matrix, <<>>) >>, <<>>),
     File("stl", TRUE, <<>>, Tri, <<>>, <<>>, <<>>),
     File("obj", TRUE, <<>>, <<>>, <<>>, <<>>, V012 \o <<F123>>),
     File("none", TRUE, <<>>, <<>>, <<>>, <<>>, <<>>),
     File("none", TRUE, <<>>, <<>>, <<>>, <<>>, <<BadLine>>)}

DispatchIo == [fpos : {0, 2}, adv : {0, 1}, failat : 0..MF_NUM_FMT]

\* The OBJ reader alone, post-processing off: the files above, groups whose
\* faces share triples with an earlier group, and face vertices whose
\* indices lie outside the arrays read so far, under each outcome of the
\* reads they lead to.
FileUb(f, ub) == [f EXCEPT !.ub = ub]

UbOutcomes ==
    {[val |-> 0, fault |-> FALSE], [val |-> 7, fault |-> FALSE],
     [val |-> 0, fault |-> TRUE]}

FilesObjGroups ==
    {File("obj", TRUE, <<>>, <<>>, <<>>, <<>>, lines) :
        lines \in {
          V012 \o <<F123, G, F123>>,
          V012 \o <<V(3), F123, G,
                    F(<<FV(2, 0, 0), FV(3, 0, 0), FV(4, 0, 0)>>)>>,
          V012 \o <<V(3), F123, G,
                    F(<<FV(4, 0, 0), FV(3, 0, 0), FV(2, 0, 0)>>),
                    F(<<FV(4, 0, 0), FV(2, 0, 0), FV(1, 0, 0)>>)>>,
          V012 \o <<VN, F(<<FV(1, 0, 1), FV(2, 0, 1), FV(3, 0, 1)>>), G,
                    F(<<FV(1, 0, 0), FV(2, 0, 0), FV(3, 0, 0)>>)>> }}

FilesObjOutside ==
    {FileUb(File("obj", TRUE, <<>>, <<>>, <<>>, <<>>, lines), ub) :
        lines \in {
          V012 \o <<F(<<FV(1, 0, 0), FV(2, 0, 0), FV(4, 0, 0)>>)>>,
          V012 \o <<F(<<FV(0, 0, 0), FV(1, 0, 0), FV(2, 0, 0)>>)>>,
          V012 \o <<F(<<FV(-4, 0, 0), FV(-2, 0, 0), FV(-1, 0, 0)>>)>>,
          V012 \o <<VN, F(<<FV(1, 0, 2), FV(2, 0, 1), FV(3, 0, 1)>>)>>,
          V012 \o <<VT, F(<<FV(1, 2, 0), FV(2, 1, 0), FV(3, 1, 0)>>)>>,
          V012 \o <<VN, F(<<FV(1, 0, -2), FV(2, 0, -2), FV(3, 0, -2)>>)>>,
          V012 \o <<VT, F(<<FV(1, -2, 0), FV(2, -2, 0), FV(3, -2, 0)>>)>> },
        ub \in UbOutcomes}

ObjFiles == FilesObj \cup FilesObjGroups \cup FilesObjOutside

NextObj ==
    \/ \E f \in ObjFiles, io \in LoadIo :
          /\ ~load_call.fault
          /\ CountedLoad /\ Fits(f) /\ mf_load_userio(f, MF_NOPROC, io)
    \/ ~load_call.fault /\ mf_clear /\ UNCHANGED <<ncalls, saveVars, auxVars>>

SpecObj == Init /\ [][NextObj]_vars

\* Scenes written as OBJ and read back, and the files a codec opens by
\* name: the caller adds meshes of up to four positions with or without
\* normals and texture coordinates, saves the scene with or without
\* materials and an open callback, empties it and loads what was written,
\* or loads an OBJ stream naming material libraries or a glTF stream with
\* embedded and external buffers.
MaxFileOps == 4

\* a glTF buffer: embedded data, an external file or no uri, its
\* byteLength, and whether the external file can be opened
GBuf(uri, size, found) == [uri |-> uri, size |-> size, found |-> found]

FileBufs(f, bufs) == [f EXCEPT !.gbufs = bufs]

FilesGltfBufs ==
    {FileBufs(File("gltf", TRUE, <<>>, <<>>, << <<P_plain>> >>,
                   << GNode(0, mf_id_matrix, <<>>) >>, <<>>), bufs) :
        bufs \in {<< GBuf("data", 4, TRUE) >>,
                  << GBuf("file", 4, TRUE) >>,
                  << GBuf("file", 4, FALSE) >>,
                  << GBuf("none", 4, FALSE), GBuf("file", 0, TRUE) >>,
                  << GBuf("file", 4, TRUE), GBuf("file", 4, TRUE) >>}}

\* glTF files by the shape of their "meshes" array: elements that are not
\* JSON objects (skip), objects without a primitives array (noprims)
FileShape(f, skip, noprims) == [f EXCEPT !.gskip = skip, !.gnoprims = noprims]

GNodesFor(n) == [k \in 1..n |-> GNode(k - 1, mf_id_matrix, <<>>)]

FilesGltfShapes ==
    {FileShape(File("gltf", TRUE, <<>>, <<>>, g.meshes, GNodesFor(2), <<>>),
               g.skip, g.noprims) :
        g \in {[meshes |-> << <<P_plain>>, <<P_full>> >>,
                skip |-> {}, noprims |-> {}],
               [meshes |-> << <<P_skipped>>, <<P_full>> >>,
                skip |-> {}, noprims |-> {}],
               [meshes |-> << <<>>, <<P_full>> >>,
                skip |-> {1}, noprims |-> {}],
               [meshes |-> << <<>>, <<P_full>> >>,
                skip |-> {}, noprims |-> {1}],
               [meshes |-> << <<P_plain, P_notobj>>, <<P_full>> >>,
                skip |-> {}, noprims |-> {}],
               [meshes |-> << <<P_plain>>, <<>> >>,
                skip |-> {}, noprims |-> {2}]}}

FilesObjMtllib ==
    {File("obj", TRUE, <<>>, <<>>, <<>>, <<>>, lines) :
        lines \in {
          <<MtlLib(TRUE)>> \o V012 \o <<F123>>,
          <<MtlLib(FALSE)>> \o V012 \o <<F123>>,
          <<MtlLib(TRUE), MtlLib(TRUE)>> \o V012 \o <<F123>>,
          <<MtlLib(TRUE)>> \o V012 \o <<BadLine>>,
          <<MtlLib(TRUE)>> }}

DiskFile == File("obj", TRUE, <<>>, <<>>, <<>>, <<>>, disk.lines)

SaveEnvs == [nmtl : {0, 1}, has_open : BOOLEAN, open_ok : BOOLEAN]

BuiltPositions == {<<0, 1, 2>>, <<0, 1, 2, 3>>}

BuiltFaces ==
    {<< <<0, 1, 2>> >>, << <<2, 1, 0>>, <<0, 1, 2>> >>,
     << <<0, 1, 2>>, <<0, 2, 3>> >>}

\* a face indexes positions the mesh has
FacesWithin(faces, n) ==
    \A i \in 1..Len(faces) : \A j \in 1..3 : faces[i][j] < n

CountedFile ==
    /\ ncalls < MaxFileOps /\ ncalls' = ncalls + 1
    /\ UNCHANGED <<immVars, stl_call, raw_call, pureVars>>

NextFiles ==
    \/ \E xs \in BuiltPositions, fs \in BuiltFaces, a \in BOOLEAN :
          /\ CountedFile /\ Len(meshes) < 2 /\ FacesWithin(fs, Len(xs))
          /\ AddMeshBuilt(xs, IF a THEN Len(xs) ELSE 0,
                          IF a THEN Len(xs) ELSE 0, fs)
          /\ UNCHANGED <<saveVars, disk>>
    \/ \E env \in SaveEnvs :
          CountedFile /\ SaveSceneObj(env) /\ UNCHANGED loadVars
    \/ CountedFile /\ mf_clear /\ UNCHANGED <<saveVars, disk>>
    \/ \E fl \in {0, MF_NOPROC}, io \in LoadIo :
          /\ CountedFile /\ disk.written /\ Fits(DiskFile)
          /\ mf_load_userio(DiskFile, fl, io)
          /\ UNCHANGED <<saveVars, disk>>
    \/ \E f \in FilesGltfBufs \cup FilesGltfShapes \cup FilesObjMtllib,
          io \in LoadIo :
          /\ CountedFile /\ Len(meshes) < 2 /\ Fits(f)
          /\ mf_load_userio(f, MF_NOPROC, io)
          /\ UNCHANGED <<saveVars, disk>>

SpecFiles == Init /\ [][NextFiles]_vars

\* The STL reader on raw streams: face counts around 0, 2^32 / 50, 2^31
\* and 2^32 - 1, stream sizes around the header and the first faces.
MaxStlLoads == 2

StlCounts == [hi : {0, 1310, 32768, 65535}, lo : {0, 1, 2, 47186, 65535}]

StlSizes == {0, 34, 83, 84, 88, 134, 184, 185}

NextStl ==
    \/ \E nf \in StlCounts, sz \in StlSizes :
          /\ ncalls < MaxStlLoads /\ ncalls' = ncalls + 1
          /\ Len(nodes) < NumNodes
          /\ LoadStlStream(nf, sz)
          /\ UNCHANGED <<saveVars, immVars, disk, raw_call, pureVars>>
    \/ mf_clear /\ UNCHANGED <<ncalls, saveVars, auxVars>>

SpecStl == Init /\ [][NextStl]_vars

\* The decoder on the standard encoding of every string of up to
\* MaxB64Len bytes, as it is, or with a blank or a line feed put in at any
\* place, into a buffer of the caller (of exactly the decoded size, or
\* larger) or into one the decoder allocates.
MaxB64Len == 3

B64Bytes == {0, 97, 255}

RECURSIVE ByteStrings(_)
ByteStrings(n) ==
    IF n = 0 THEN {<<>>}
    ELSE ByteStrings(n - 1)
             \cup {Append(s, b) : s \in {x \in ByteStrings(n - 1) : Len(x) = n - 1},
                                  b \in B64Bytes}

\* sextet to character: A-Z, a-z, 0-9, +, /
B64Alphabet(v) ==
    IF v < 26 THEN 65 + v
    ELSE IF v < 52 THEN 97 + v - 26
    ELSE IF v < 62 THEN 48 + v - 52
    ELSE IF v = 62 THEN 43 ELSE 47

\* the standard encoding (RFC 4648) of the bytes i.. of s
RECURSIVE B64Encode(_, _)
B64Encode(s, i) ==
    IF i > Len(s) THEN <<>>
    ELSE IF i = Len(s)
    THEN <<B64Alphabet(s[i] \div 4), B64Alphabet((s[i] % 4) * 16), 61, 61>>
    ELSE IF i + 1 = Len(s)
    THEN <<B64Alphabet(s[i] \div 4),
           B64Alphabet((s[i] % 4) * 16 + s[i + 1] \div 16),
           B64Alphabet((s[i + 1] % 16) * 4), 61>>
    ELSE <<B64Alphabet(s[i] \div 4),
           B64Alphabet((s[i] % 4) * 16 + s[i + 1] \div 16),
           B64Alphabet((s[i + 1] % 16) * 4 + s[i + 2] \div 64),
           B64Alphabet(s[i + 2] % 64)>> \o B64Encode(s, i + 3)

\* the string with the character c put in after its first k characters
InsertAt(str, k, c) == SubSeq(str, 1, k) \o <<c>> \o SubSeq(str, k + 1, Len(str))

\* the encodings of s handed to the decoder
B64Inputs(s) ==
    {B64Encode(s, 1)}
        \cup {InsertAt(B64Encode(s, 1), k, c) :
                 k \in 0..Len(B64Encode(s, 1)), c \in {32, 10}}

NextB64 ==
    \/ \E s \in ByteStrings(MaxB64Len) : \E str \in B64Inputs(s) :
          \E extra \in {0, 2} :
              /\ mf_b64decode(str, TRUE, Len(s) + extra)
              /\ UNCHANGED <<ncalls, saveVars, loadVars, immVars, disk, stl_call, raw_call,
                             mtl_call>>
    \/ \E s \in ByteStrings(MaxB64Len) : \E str \in B64Inputs(s) :
          /\ mf_b64decode(str, FALSE, 0)
          /\ UNCHANGED <<ncalls, saveVars, loadVars, immVars, disk, stl_call, raw_call,
                         mtl_call>>

SpecB64 == Init /\ [][NextB64]_vars

\* The MTL reader on every library of up to MaxMtlLines lines.
MaxMtlLines == 4

MtlLineSet == {NewMtl, Ks(1), Ns(0), Ns(50), OtherLine}

RECURSIVE MtlLibs(_)
MtlLibs(n) ==
    IF n = 0 THEN {<<>>}
    ELSE MtlLibs(n - 1)
             \cup {Append(l, x) : l \in {y \in MtlLibs(n - 1) : Len(y) = n - 1},
                                  x \in MtlLineSet}

NextMtl ==
    \E lines \in MtlLibs(MaxMtlLines) :
        /\ load_mtl(lines)
        /\ UNCHANGED <<ncalls, saveVars, loadVars, immVars, disk, stl_call, raw_call,
                       b64_call>>

SpecMtl == Init /\ [][NextMtl]_vars

\* The post-load pipeline under every combination of the three load flags:
\* one stream per codec, objects without faces or with a transform, meshes
\* with and without normals and texture coordinates.
PostFiles ==
    {File("3ds", TRUE, <<O_uv>>, <<>>, <<>>, <<>>, <<>>),
     File("3ds", TRUE, <<O_nofaces, O_plain>>, <<>>, <<>>, <<>>, <<>>),
     File("3ds", TRUE, <<O_moved>>, <<>>, <<>>, <<>>, <<>>),
     File("jtf", TRUE, <<>>, Tri, <<>>, <<>>, <<>>),
     File("stl", TRUE, <<>>, Tri, <<>>, <<>>, <<>>),
     File("gltf", TRUE, <<>>, <<>>, << <<P_plain>> >>,
          << GNode(0, TransMatrix(1), <<>>) >>, <<>>),
     File("gltf", TRUE, <<>>, <<>>, << <<P_full>> >>,
          << GNode(-1, ScaleMatrix(2), <<1>>), GNode(0, TransMatrix(1), <<>>) >>,
          <<>>),
     File("obj", TRUE, <<>>, <<>>, <<>>, <<>>,
          V012 \o <<VT, F(<<FV(1, 1, 0), FV(2, 1, 0), FV(3, 1, 0)>>)>>),
     File("none", TRUE, <<>>, <<>>, <<>>, <<>>, <<BadLine>>)}

PostFlagWords ==
    {a + t + n : a \in {0, MF_APPLY_XFORM}, t \in {0, MF_GEN_TANGENTS},
                 n \in {0, MF_NOPROC}}

NextPost ==
    \/ \E f \in PostFiles, fl \in PostFlagWords, io \in LoadIo :
          CountedLoad /\ Fits(f) /\ mf_load_userio(f, fl, io)
    \/ mf_clear /\ UNCHANGED <<ncalls, saveVars, auxVars>>

SpecPost == Init /\ [][NextPost]_vars

\* The builder driven by any caller: sessions of either primitive, nested
\* up to MaxSessions blocks, sticky attributes and vertices in any order,
\* and every builder call also made with no session open.
MaxImmed == 8
MaxSessions == 2
UbRead == {"fault", "other"}

CountedImmed ==
    /\ ncalls < MaxImmed /\ ncalls' = ncalls + 1
    /\ UNCHANGED <<graphVars, saveVars, loadVars, disk, stl_call, raw_call, pureVars>>

NextImmed ==
    \/ \E prim \in {MF_TRIANGLES, MF_QUADS}, ub \in UbRead :
          Len(immed) < MaxSessions /\ CountedImmed /\ mf_begin(prim, ub)
    \/ \E ub \in UbRead : CountedImmed /\ mf_vertex(ub)
    \/ \E ub \in UbRead : CountedImmed /\ mf_normal(ub)
    \/ \E ub \in UbRead : CountedImmed /\ mf_tangent(ub)
    \/ \E ub \in UbRead : CountedImmed /\ mf_texcoord(ub)
    \/ \E ub \in UbRead : CountedImmed /\ mf_color(ub)
    \/ \E ub \in UbRead : CountedImmed /\ mf_end(ub)
    \/ CountedImmed /\ AddTriangleDirect
    \/ CountedImmed /\ SetUdata

SpecImmed == Init /\ [][NextImmed]_vars

\* The life of a mesh a caller names: named, built in sessions, released.
MaxNameOps == 6

CountedName ==
    /\ ncalls < MaxNameOps /\ ncalls' = ncalls + 1
    /\ UNCHANGED <<graphVars, saveVars, loadVars, disk, stl_call, raw_call, pureVars>>

NextNames ==
    \/ CountedName /\ SetName
    \/ \E prim \in {MF_TRIANGLES, MF_QUADS}, ub \in UbRead :
          Len(immed) < MaxSessions /\ CountedName /\ mf_begin(prim, ub)
    \/ \E ub \in UbRead : CountedName /\ mf_vertex(ub)
    \/ \E ub \in UbRead : CountedName /\ mf_end(ub)
    \/ \E ub \in UbRead : CountedName /\ FreeMesh(ub)

SpecNames == Init /\ [][NextNames]_vars

\* The JTF reader on raw streams: lengths around the header and the first
\* face records, face counts up to MaxJtfFaces.
MaxJtfLoads == 2
MaxJtfFaces == 2

JtfStreams ==
    [flen : {0, 4, JTF_HDR, JTF_HDR + 40, JTF_HDR + JTF_FACE,
             JTF_HDR + JTF_FACE + 95, JTF_HDR + 2 * JTF_FACE},
     magic : BOOLEAN, nfaces : 0..MaxJtfFaces]

JtfUb == [magic : BOOLEAN, nfaces : {0, 1}]

NextJtf ==
    \/ \E st \in JtfStreams, ub \in JtfUb :
          /\ ncalls < MaxJtfLoads /\ ncalls' = ncalls + 1
          /\ Len(nodes) < NumNodes
          /\ LoadJtfStream(st, ub)
          /\ UNCHANGED <<saveVars, immVars, disk, stl_call, pureVars>>
    \/ mf_clear /\ UNCHANGED <<ncalls, saveVars, auxVars>>

SpecJtf == Init /\ [][NextJtf]_vars

\* The chunk loop of mf_load_3ds on raw streams: a main chunk whose length
\* is that of the stream or more, followed by up to MaxCells editor and
\* unknown chunks with lengths of 0, one and two cells.
MaxChunkLoads == 2
MaxCells == 2

Cell(id, len) == [id |-> id, len |-> len]

SubCells == [id : {"3ded", "other"}, len : {0, CHDR_SIZE, 2 * CHDR_SIZE}]

RECURSIVE CellSeqs(_)
CellSeqs(n) ==
    IF n = 0 THEN {<<>>}
    ELSE CellSeqs(n - 1)
             \cup {Append(l, x) : l \in {y \in CellSeqs(n - 1) : Len(y) = n - 1},
                                  x \in SubCells}

ChunkStreams ==
    {<<Cell("main", CHDR_SIZE * (Len(l) + 1) + extra)>> \o l :
        l \in CellSeqs(MaxCells), extra \in {0, 2 * CHDR_SIZE}}
        \cup {<<>>, <<Cell("other", CHDR_SIZE)>>}

ChunkUb == [id : {"3ded", "other"}, len : {0, 2 * CHDR_SIZE}, endpos : {0}]

\* the loop runs on while the program does
ChunkLoopStep ==
    /\ Load3dsIter
    /\ UNCHANGED <<graphVars, ncalls, saveVars, loadVars, immVars, disk,
                   stl_call, pureVars>>

Next3ds ==
    \/ \E cells \in ChunkStreams, ub \in ChunkUb :
          /\ ncalls < MaxChunkLoads /\ ncalls' = ncalls + 1
          /\ Load3dsBegin(cells, ub)
          /\ UNCHANGED <<graphVars, saveVars, loadVars, immVars, disk,
                         stl_call, pureVars>>
    \/ ChunkLoopStep

Spec3ds == Init /\ [][Next3ds]_vars

\* the loop is not left alone while it can run
Spec3dsFair == Spec3ds /\ WF_vars(ChunkLoopStep)

\* mf_save_3ds on scenes of up to MaxSaveMtls materials and MaxSaveObjs
\* meshes under named nodes, names of up to MaxStrlen characters.
MaxSaveMtls == 1
MaxSaveObjs == 2
MaxStrlen == 2
MaxSaves3ds == 1

SaveMtls ==
    [name : {0, MaxStrlen}, selfillum : BOOLEAN,
     maps : {<<>>, <<1>>, <<MaxStrlen, 0>>}]

SaveObjs ==
    [nodename : {1, MaxStrlen}, mtlname : {0, MaxStrlen},
     num_verts : {0, 3}, num_faces : {0, 1}, texcoord : BOOLEAN]
        \cup [nodename : {1}, mtlname : {0}, num_verts : {65536},
              num_faces : {0}, texcoord : {FALSE}]

RECURSIVE SeqsUpTo(_, _)
SeqsUpTo(S, n) ==
    IF n = 0 THEN {<<>>}
    ELSE SeqsUpTo(S, n - 1)
             \cup {Append(l, x) : l \in {y \in SeqsUpTo(S, n - 1) : Len(y) = n - 1},
                                  x \in S}

SaveScenes ==
    [mtls : SeqsUpTo(SaveMtls, MaxSaveMtls), objs : SeqsUpTo(SaveObjs, MaxSaveObjs)]

Next3dsWrite ==
    \/ \E scene \in SaveScenes :
          /\ ncalls < MaxSaves3ds /\ ncalls' = ncalls + 1
          /\ Save3ds(scene)
          /\ UNCHANGED <<graphVars, saveVars, loadVars, immVars, disk,
                         stl_call, pureVars>>

Spec3dsWrite == Init /\ [][Next3dsWrite]_vars

NextDispatch ==
    \/ \E f \in DispatchFiles, io \in DispatchIo :
          CountedLoad /\ Fits(f) /\ mf_load_userio(f, MF_NOPROC, io)
    \/ mf_clear /\ UNCHANGED <<ncalls, saveVars, auxVars>>

SpecDispatch == Init /\ [][NextDispatch]_vars

(***************************************************************************)
(* Claims about the scene graph.                                           *)
(***************************************************************************)

\* C1: after any sequence of mf_add_node, mf_node_add_child and
\* mf_node_remove_child calls, a registered node is in topnodes if and only
\* if its parent reference is empty.
C1_TopIffParentless ==
    \A n \in Range(nodes) : (n \in Range(topnodes)) <=> (parent[n] = NULL)

\* C2: after any sequence of mf_node_add_child and mf_node_remove_child
\* calls, parent pointers and child lists agree: c.parent = p iff c occurs in
\* p's child list, it occurs there exactly once, and p.num_child is the
\* length of p's child list.
C2_ParentChildAgree ==
    \A p \in Nodes :
        /\ num_child[p] = Len(child[p])
        /\ \A c \in Nodes :
              /\ (parent[c] = p) <=> (c \in Range(child[p]))
              /\ Occurrences(child[p], c) <= 1

\* C2 witness: a child was added a second time to the parent it already
\* had, whose list also holds another child.
C2_Witness ==
    /\ last_op = "add_child_again"
    /\ \E p \in Nodes : Len(child[p]) >= 2

\* C3: after mf_update_xform returns, every registered node has
\* global = parent.global * local when it has a parent and global = local
\* when it has none, whatever the order of registration and parenting.
C3_GlobalsConsistent ==
    last_op = "update_xform" =>
        \A n \in Range(nodes) :
            global_matrix[n] =
                IF parent[n] # NULL
                THEN mf_mult_matrix(global_matrix[parent[n]], matrix[n])
                ELSE matrix[n]

(***************************************************************************)
(* Claims about the save dispatcher.                                       *)
(***************************************************************************)
LowerStr(s) == [i \in 1..Len(s) |-> IF s[i] \in 65..90 THEN s[i] + 32 ELSE s[i]]

\* the text after the last '.' of a name that has one
AfterLastDot(s) ==
    LET k == CHOOSE k \in 1..Len(s) :
                 s[k] = 46 /\ 46 \notin {s[j] : j \in (k+1)..Len(s)}
    IN  [i \in 1..(Len(s) - k) |-> s[k + i]]

SuffixCodec(w) ==
    CASE w = sfx_3ds  -> MF_FMT_3DS
      [] w = sfx_jtf  -> MF_FMT_JTF
      [] w = sfx_gltf -> MF_FMT_GLTF
      [] w = sfx_stl  -> MF_FMT_STL
      [] w = sfx_obj  -> MF_FMT_OBJ
      [] OTHER        -> 0

\* C6: on save a non-zero format tag in the low byte of the flags decides
\* (a tag that names no codec fails the save without calling one);
\* otherwise, for mf_save only, the text after the last '.' of the file name,
\* compared case-insensitively with 3ds, jtf, gltf, stl, obj, picks the
\* codec; otherwise the OBJ codec is used.
C6_SaveCodecChoice ==
    (save_call.entry # "none" /\ save_call.opened) =>
        LET tag == save_call.flags % 256
            f   == save_call.fname
            bysuffix ==
                IF save_call.entry = "mf_save" /\ 46 \in Range(f)
                THEN SuffixCodec(LowerStr(AfterLastDot(f)))
                ELSE 0
        IN  save_call.codec =
                IF tag # 0
                THEN (IF tag \in 1..5 THEN tag ELSE 0)
                ELSE IF bysuffix # 0 THEN bysuffix
                ELSE MF_FMT_OBJ

\* C6 witness: mf_save with tag 0 picked the glTF codec from a suffix that
\* is not all lower case, in a name with more than one dot.
C6_Witness ==
    /\ save_call.entry = "mf_save"
    /\ save_call.opened
    /\ save_call.flags % 256 = 0
    /\ save_call.codec = MF_FMT_GLTF
    /\ \E i \in 1..Len(save_call.fname) : save_call.fname[i] \in 65..90
    /\ Occurrences(save_call.fname, 46) >= 2

(***************************************************************************)
(* Claims about loading.                                                   *)
(***************************************************************************)
CodecOrder == <<MF_FMT_3DS, MF_FMT_JTF, MF_FMT_GLTF, MF_FMT_STL, MF_FMT_OBJ>>

\* C4: mf_load_userio records the stream offset at entry and calls the
\* codecs strictly in the order 3DS, JTF, glTF, STL, OBJ; every codec is
\* entered with the stream at the recorded offset; the first codec that
\* returns success ends the search, so only the last call made can have
\* succeeded; a failing rewind aborts the load with failure; when no rewind
\* failed and no codec succeeded all five were tried and the load fails.
C4_DispatchOrder ==
    load_call.kind # "nocall" =>
        LET c == load_call.calls
        IN  /\ Len(c) <= Len(CodecOrder)
            /\ \A i \in 1..Len(c) :
                  /\ c[i].fmt = CodecOrder[i]
                  /\ c[i].pos = load_call.fpos
                  /\ (i < Len(c) => c[i].res # 0)
            /\ (load_call.seekfailed => load_call.res = -1)
            /\ (load_call.seekfailed => (Len(c) > 0 /\ c[Len(c)].res # 0))
            /\ (~load_call.seekfailed /\ (Len(c) = 0 \/ c[Len(c)].res # 0)
                  => (Len(c) = Len(CodecOrder) /\ load_call.res = -1))
            /\ (load_call.res = 0 => (Len(c) > 0 /\ c[Len(c)].res = 0))

\* four codecs failed on a stream that does not start at offset 0 and the
\* fifth loaded it
C4_Witness ==
    /\ last_op = "load"
    /\ load_call.fpos = 2
    /\ Len(load_call.calls) = Len(CodecOrder)
    /\ load_call.calls[Len(CodecOrder)].res = 0
    /\ load_call.res = 0

\* C5: when the stream holds nothing any of the five formats recognises,
\* mf_load_userio returns failure and runs no post-processing, whatever the
\* scene held at the time of the call.
C5_UnrecognisedFails ==
    (last_op = "load" /\ load_call.kind = "none")
        => (load_call.res = -1 /\ load_call.steps = <<>>)

\* C7: mf_bounds returns -1 and leaves the caller's box alone whenever the
\* scene is empty, also when mf_clear emptied a loaded scene.
C7_BoundsFailsWhenEmpty ==
    [][(last_op' = "bounds" /\ Len(meshes) = 0 /\ Len(nodes) = 0)
          => (bounds_call'.res = -1 /\ bounds_call'.bb = bounds_call.bb)]_vars

\* the box holds the point v
InBox(box, v) == box.vmin <= v /\ v <= box.vmax

\* C8: after a successful load, with any flags, the scene box contains every
\* position of every mesh transformed by the global matrix of each node that
\* owns the mesh.
C8_SceneBoxCovers ==
    (last_op = "load" /\ load_call.res = 0) =>
        \A n \in Range(nodes) :
            \A j \in 1..Len(node_meshes[n]) :
                LET m == meshes[node_meshes[n][j]]
                IN  \A i \in 1..Len(m.vertex) :
                        InBox(aabox, mf_transform(m.vertex[i], global_matrix[n]))

\* C9: after a successful load every mesh's own box bounds every position
\* the mesh holds.
C9_MeshBoxCovers ==
    (last_op = "load" /\ load_call.res = 0) =>
        \A k \in 1..Len(meshes) :
            \A i \in 1..Len(meshes[k].vertex) :
                InBox(meshes[k].aabox, meshes[k].vertex[i])

\* C10: in every mesh a load leaves in the scene, each of the normal,
\* tangent, texcoord and colour arrays is absent or has as many elements as
\* the position array.
C10_AttrCounts ==
    last_op = "load" =>
        \A k \in 1..Len(meshes) :
            LET m == meshes[k]
            IN  {m.normal, m.tangent, m.texcoord, m.color}
                    \subseteq {0, Len(m.vertex)}

(***************************************************************************)
(* Claims about the OBJ reader.                                            *)
(***************************************************************************)

\* the mf_load_obj calls of the last load
ObjCalls ==
    {k \in 1..Len(load_call.calls) : load_call.calls[k].fmt = MF_FMT_OBJ}

\* the triples behind the mesh b are one per vertex, and every face index
\* is inside the mesh and at the vertex built from the triple the face names
DedupHolds(b, m) ==
    /\ Len(b.keys) = Len(m.vertex)
    /\ \A i, j \in 1..Len(b.keys) : b.keys[i] = b.keys[j] => i = j
    /\ \A f \in 1..Len(m.faces) : \A c \in 1..3 :
          /\ m.faces[f][c] >= 0
          /\ m.faces[f][c] < Len(m.vertex)
          /\ b.keys[m.faces[f][c] + 1] = b.refs[f][c]

\* C11: in every mesh the OBJ reader hands to the scene each distinct
\* (v,t,n) triple its faces reference yields exactly one vertex of that
\* mesh, and every face index is smaller than the mesh's position count and
\* points at the vertex built from its triple, also when a later "o"/"g"
\* group references triples an earlier group used.
C11_ObjDedup ==
    (last_op = "load" /\ ~load_call.fault) =>
        \A k \in ObjCalls :
            \A i \in 1..Len(load_call.calls[k].trace.built) :
                LET b == load_call.calls[k].trace.built[i]
                IN  DedupHolds(b, meshes[b.mesh])

\* the number of lines of type ty before line i
LinesBefore(lines, i, ty) == Cardinality({j \in 1..(i - 1) : lines[j].t = ty})

\* the written index r does not name one of n elements
OutsideIdx(r, n) == r > n \/ r < 0 - n

\* some face vertex of the stream names a position, texcoord or normal that
\* the lines before it do not define (0 in the texcoord or normal place
\* stands for a part that is not written)
HasOutsideRef(lines) ==
    \E i \in 1..Len(lines) :
        /\ lines[i].t = "f"
        /\ \E c \in 1..Len(lines[i].fv) :
              LET raw == lines[i].fv[c]
              IN  \/ raw.v = 0
                  \/ OutsideIdx(raw.v, LinesBefore(lines, i, "v"))
                  \/ OutsideIdx(raw.t, LinesBefore(lines, i, "vt"))
                  \/ OutsideIdx(raw.n, LinesBefore(lines, i, "vn"))

\* C12: a face-vertex reference outside the attributes defined so far is a
\* format error: mf_load_obj fails and never reads an array with the index.
C12_ObjIndexChecked ==
    (last_op = "load" /\ HasOutsideRef(load_call.lines)) =>
        \A k \in ObjCalls :
            /\ load_call.calls[k].res = -1
            /\ ~load_call.calls[k].trace.oob
            /\ ~load_call.calls[k].trace.fault

(***************************************************************************)
(* Claims about the immediate-mode builder.                                *)
(***************************************************************************)

\* the faces the j-th primitive of a session leaves in a mesh
OwnFaces(faces, prim, j) ==
    IF prim = MF_QUADS
    THEN /\ faces[2*j - 1] = <<4*(j-1), 4*(j-1) + 1, 4*(j-1) + 2>>
         /\ faces[2*j]     = <<4*(j-1), 4*(j-1) + 2, 4*(j-1) + 3>>
    ELSE faces[j] = <<3*(j-1), 3*(j-1) + 1, 3*(j-1) + 2>>

\* C13: after mf_begin(m, prim) on any mesh and n mf_vertex calls the mesh
\* holds exactly n positions and floor(n/3) faces for triangles or
\* 2*floor(n/4) for quads, and the j-th primitive references the positions
\* its own vertex calls appended.
C13_BuilderCounts ==
    (SessionOpen /\ im_call.nverts >= 0) =>
        LET n    == im_call.nverts
            prim == immed[bmesh.udata].prim
        IN  /\ Len(bmesh.vertex) = n
            /\ Len(bmesh.faces) = IF prim = MF_QUADS THEN 2 * (n \div 4)
                                  ELSE n \div 3
            /\ \A j \in 1..(n \div prim) : OwnFaces(bmesh.faces, prim, j)

\* two triangles built on a mesh that carried caller data and a triangle
\* of its own before mf_begin
C13_Witness ==
    /\ SessionOpen
    /\ im_call.nverts = 6
    /\ immed[bmesh.udata].prim = MF_TRIANGLES
    /\ immed[bmesh.udata].orig_udata = UserData
    /\ Len(bmesh.faces) = 2

BuilderCalls == {"normal", "tangent", "texcoord", "color", "vertex", "end"}

\* C14: mf_normal, mf_tangent, mf_texcoord, mf_color, mf_vertex and mf_end
\* on a mesh with no open session are detected and ignored: the mesh and
\* its user slot are unchanged and the call does not fault.
C14_StrayCallsIgnored ==
    [][(ncalls' # ncalls /\ im_call'.op \in BuilderCalls /\ ~im_call'.open)
          => (bmesh' = bmesh /\ immed' = immed /\ ~im_call'.fault)]_vars

(***************************************************************************)
(* Claims about the files a codec opens and the OBJ round trip.            *)
(***************************************************************************)
\* every handle of the trace was closed exactly once, and nothing else was
HandlesPaired(tr) ==
    /\ \A h \in 1..tr.opened : Occurrences(tr.closed, h) = 1
    /\ \A i \in 1..Len(tr.closed) : tr.closed[i] \in 1..tr.opened

\* C15: every handle a codec obtained from the open callback during a load
\* or a save has been passed to the close callback exactly once when the
\* codec returns, whether it succeeded or failed.
C15_HandlesClosed ==
    /\ last_op = "load" =>
          \A k \in 1..Len(load_call.calls) :
              HandlesPaired(load_call.calls[k].trace)
    /\ disk.written => HandlesPaired(disk.trace)

\* the same for the OBJ codec alone, reading and writing
C15_ObjHandlesClosed ==
    /\ last_op = "load" =>
          \A k \in 1..Len(load_call.calls) :
              load_call.calls[k].fmt = MF_FMT_OBJ =>
                  HandlesPaired(load_call.calls[k].trace)
    /\ disk.written => HandlesPaired(disk.trace)

\* the last call loaded what the last save wrote into an empty scene, and
\* the scene saved was one mesh with positions, normals, texture
\* coordinates and at least one triangle
RoundTripOfOne ==
    /\ last_op = "load" /\ disk.written /\ load_call.lines = disk.lines
    /\ ~load_call.had_meshes
    /\ Len(disk.meshes) = 1
    /\ Len(disk.meshes[1].vertex) > 0
    /\ disk.meshes[1].normal = Len(disk.meshes[1].vertex)
    /\ disk.meshes[1].texcoord = Len(disk.meshes[1].vertex)
    /\ Len(disk.meshes[1].faces) > 0

\* C19: a scene of one named mesh with positions, normals, texture
\* coordinates and indexed triangles, saved as OBJ and loaded into an empty
\* scene, loads successfully as one mesh with the same number of positions
\* and of triangles.
C19_ObjRoundTrip ==
    RoundTripOfOne =>
        /\ load_call.res = 0
        /\ Len(meshes) = 1
        /\ Len(meshes[1].vertex) = Len(disk.meshes[1].vertex)
        /\ Len(meshes[1].faces) = Len(disk.meshes[1].faces)

\* the same when every position of the mesh is used by a triangle
C19_AllPositionsUsed ==
    (RoundTripOfOne /\ \A v \in 0..(Len(disk.meshes[1].vertex) - 1) :
         \E i \in 1..Len(disk.meshes[1].faces) :
             \E j \in 1..3 : disk.meshes[1].faces[i][j] = v) =>
        /\ load_call.res = 0
        /\ Len(meshes) = 1
        /\ Len(meshes[1].vertex) = Len(disk.meshes[1].vertex)
        /\ Len(meshes[1].faces) = Len(disk.meshes[1].faces)

(***************************************************************************)
(* Claims about the STL reader.                                            *)
(***************************************************************************)
\* C16: mf_load_stl decodes faces only when 80 + 4 + 50 * nfaces, over the
\* integers, equals the size of the stream; otherwise it fails and adds no
\* mesh or node: no face count passes the size test by 32-bit wrap-around.
C16_StlSizeExact ==
    last_op = "load_stl" =>
        IF StlSizeExact(stl_call.nfaces) = Halves(stl_call.filesz)
        THEN stl_call.passed
        ELSE /\ ~stl_call.passed /\ stl_call.decoded = 0
             /\ stl_call.res = -1 /\ stl_call.added = 0

\* what does hold: a stream whose size is not the exact one is never
\* loaded, and leaves the scene as it was
C16_StlNothingAdded ==
    (last_op = "load_stl"
        /\ StlSizeExact(stl_call.nfaces) # Halves(stl_call.filesz)) =>
        stl_call.res = -1 /\ stl_call.added = 0

(***************************************************************************)
(* Claims about the base64 decoder.                                        *)
(***************************************************************************)
\* the characters of str the decoder takes as digits
RECURSIVE B64Digits(_)
B64Digits(str) ==
    IF str = <<>> THEN <<>>
    ELSE (IF b64bits(str[1]) = -1 THEN <<>> ELSE <<str[1]>>)
             \o B64Digits(Tail(str))

\* the bytes whose standard encoding has the digits of the string decoded
\* last
B64Source ==
    CHOOSE s \in ByteStrings(MaxB64Len) :
        B64Digits(B64Encode(s, 1)) = B64Digits(b64_call.str)

\* C18: decoding the standard base64 encoding of a byte string s, padded
\* and with whitespace put in anywhere, yields the bytes of s and reports
\* Len(s) bytes produced, with a buffer of the caller or an allocated one.
C18_B64RoundTrip ==
    last_op = "b64decode" =>
        /\ b64_call.count = Len(B64Source)
        /\ Len(b64_call.out) >= Len(B64Source)
        /\ SubSeq(b64_call.out, 1, Len(B64Source)) = B64Source

\* what does hold: the bytes of s come first in the buffer, and the count
\* is right when Len(s) is a multiple of 3 and one too many otherwise
C18_B64BytesRight ==
    last_op = "b64decode" =>
        /\ SubSeq(b64_call.out, 1, Len(B64Source)) = B64Source
        /\ b64_call.count =
               Len(B64Source) + (IF Len(B64Source) % 3 = 0 THEN 0 ELSE 1)

(***************************************************************************)
(* Claims about the MTL reader.                                            *)
(***************************************************************************)
\* C20: every material of a library, first, middle or last, whose
\* shininess is below 1 has a specular colour of zero when it is handed to
\* the scene.
C20_DullHasNoSpecular ==
    last_op = "load_mtl" =>
        \A i \in 1..Len(mtl_call.added) :
            mtl_call.added[i].ns < 1 => mtl_call.added[i].ks = 0

\* what does hold: the same for the last material of the library
C20_LastDullHasNoSpecular ==
    (last_op = "load_mtl" /\ mtl_call.added # <<>>) =>
        LET m == mtl_call.added[Len(mtl_call.added)]
        IN  m.ns < 1 => m.ks = 0

(***************************************************************************)
(* Claims about the post-load pipeline.                                    *)
(***************************************************************************)
\* the last call was a load in which a codec decoded the stream
Decoded ==
    /\ last_op = "load" /\ ~load_call.seekfailed /\ ~load_call.fault
    /\ load_call.calls # <<>>
    /\ load_call.calls[Len(load_call.calls)].res = 0

\* the steps after the normals pass that the flags ask for, in order
StepsAsked(flags) ==
    (IF HasFlag(flags, MF_GEN_TANGENTS) THEN <<"tangents">> ELSE <<>>)
        \o (IF HasFlag(flags, MF_APPLY_XFORM) THEN <<"apply_xform">> ELSE <<>>)

RECURSIVE Ancestors(_, _)
Ancestors(n, k) ==
    IF k = 0 \/ parent[n] = NULL THEN {}
    ELSE {parent[n]} \cup Ancestors(parent[n], k - 1)

\* C24: after any sequence of mf_node_add_child and mf_node_remove_child
\* calls no node is its own parent or ancestor, and the recursion of
\* mf_node_update_xform from any node terminates.
C24_GraphIsForest ==
    \A n \in Nodes : n \notin Ancestors(n, NumNodes) /\ Terminates(n)

\* C28: in an open builder session each of the normal, tangent, texcoord
\* and colour arrays of the mesh is empty or as long as the position
\* array, also when an attribute is first set after vertices were emitted.
C28_BuilderArraysEven ==
    (SessionOpen /\ ~im_call.fault) =>
        /\ bmesh.normal \in {0, Len(bmesh.vertex)}
        /\ bmesh.tangent \in {0, Len(bmesh.vertex)}
        /\ bmesh.texcoord \in {0, Len(bmesh.vertex)}
        /\ bmesh.color \in {0, Len(bmesh.vertex)}

\* what does hold: the same for sessions in which no attribute was first
\* set after a vertex
C28_EvenWhenSetFirst ==
    (SessionOpen /\ ~im_call.fault /\ Len(bmesh.vertex) <= 1) =>
        /\ bmesh.normal \in {0, Len(bmesh.vertex)}
        /\ bmesh.tangent \in {0, Len(bmesh.vertex)}
        /\ bmesh.texcoord \in {0, Len(bmesh.vertex)}
        /\ bmesh.color \in {0, Len(bmesh.vertex)}

(***************************************************************************)
(* Claims about what a failed load leaves behind.                          *)
(***************************************************************************)
\* C29: when mf_load_userio returns failure the scene holds the meshes and
\* nodes it held before the call, whether a codec failed part-way through
\* its input or a post-processing step failed after the decode.
C29_FailedLoadLeavesScene ==
    [][(last_op' = "load" /\ ncalls' # ncalls /\ ~load_call'.fault
            /\ load_call'.res = -1)
          => (Len(meshes') = Len(meshes) /\ Len(nodes') = Len(nodes))]_vars
(***************************************************************************)
(* Claims about the references of a written OBJ file.                      *)
(***************************************************************************)
\* the number of lines of kind t among the first i lines
RECURSIVE LinesOfKind(_, _, _)
LinesOfKind(lines, t, i) ==
    IF i = 0 THEN 0
    ELSE LinesOfKind(lines, t, i - 1) + (IF lines[i].t = t THEN 1 ELSE 0)

\* the line at which the k-th object of the file begins
RECURSIVE ObjectStart(_, _, _)
ObjectStart(lines, k, i) ==
    IF i > Len(lines) THEN i
    ELSE IF lines[i].t = "g"
         THEN (IF k = 1 THEN i ELSE ObjectStart(lines, k - 1, i + 1))
         ELSE ObjectStart(lines, k, i + 1)

\* the f lines of the k-th object, in order
RECURSIVE FaceLines(_, _)
FaceLines(lines, i) ==
    IF i > Len(lines) \/ lines[i].t = "g" THEN <<>>
    ELSE (IF lines[i].t = "f" THEN <<lines[i]>> ELSE <<>>)
             \o FaceLines(lines, i + 1)

\* under the file-wide numbering kept for each kind of line, reference r
\* of an object beginning at line s is to the entry written for vertex
\* vidx of that object
RefersTo(lines, t, s, r, vidx) == r = LinesOfKind(lines, t, s) + vidx + 1

\* every reference of the f lines of mesh k is to the position, texture
\* coordinate and normal of the vertex of mesh k the face names
MeshRefsRight(lines, ms, k) ==
    LET s  == ObjectStart(lines, k, 1)
        fl == FaceLines(lines, s + 1)
    IN  /\ Len(fl) = Len(ms[k].faces)
        /\ \A i \in 1..Len(fl) : \A j \in 1..3 :
              LET r == fl[i].fv[j]
                  vidx == ms[k].faces[i][j]
              IN  /\ RefersTo(lines, "v", s, r.v, vidx)
                  /\ ms[k].texcoord # 0 => RefersTo(lines, "vt", s, r.t, vidx)
                  /\ ms[k].normal # 0 => RefersTo(lines, "vn", s, r.n, vidx)

\* C27: in an OBJ file written for a scene, every face-vertex reference of
\* mesh k resolves, under the file-wide 1-based numbering kept separately
\* for v, vt and vn lines, to the position, texture coordinate and normal of
\* the same vertex of mesh k, whatever arrays the meshes before it have.
C27_ObjRefsResolve ==
    disk.written =>
        \A k \in 1..Len(disk.meshes) : MeshRefsRight(disk.lines, disk.meshes, k)

\* what does hold: the position references are right in every file, and
\* all references are right when every mesh before has both arrays
C27_ObjRefsOfEvenScenes ==
    disk.written =>
        \A k \in 1..Len(disk.meshes) :
            /\ LET s == ObjectStart(disk.lines, k, 1)
                   fl == FaceLines(disk.lines, s + 1)
               IN  \A i \in 1..Len(fl) : \A j \in 1..3 :
                       RefersTo(disk.lines, "v", s, fl[i].fv[j].v,
                                disk.meshes[k].faces[i][j])
            /\ (\A h \in 1..(k - 1) : disk.meshes[h].texcoord # 0
                                        /\ disk.meshes[h].normal # 0)
                  => MeshRefsRight(disk.lines, disk.meshes, k)
(***************************************************************************)
(* Claims about names.                                                     *)
(***************************************************************************)
\* C30: after mf_clear_mesh, and so after mf_begin on a named mesh, the mesh
\* holds no reference to released storage: its name pointer is null or
\* points to a string that is still allocated, and no call (a later
\* mf_begin, mf_free_mesh) releases the name a second time.
C30_NoDanglingName ==
    /\ bmesh.name # "freed"
    /\ ~im_call.dfree

\* what does hold: a mesh that was never named keeps a null name and is
\* released once
C30_UnnamedMeshIsSafe ==
    [][(bmesh.name = "null" /\ im_call'.op # "name")
          => (bmesh'.name = "null" /\ ~im_call'.dfree)]_vars

\* C23: every mesh and node a codec passes to mf_add_mesh and mf_add_node
\* during a load carries a name: no name assertion sees a null pointer, and
\* every mesh of the scene after a load has a name.
C23_LoadedObjectsNamed ==
    last_op = "load" =>
        /\ \A k \in 1..Len(load_call.calls) :
               load_call.calls[k].trace.unnamed = 0
        /\ \A i \in 1..Len(meshes) : meshes[i].name # "null"

\* what does hold: the OBJ, 3DS and glTF readers name every mesh they add
C23_ObjGltf3dsMeshesNamed ==
    (last_op = "load" /\ load_call.kind \in {"obj", "3ds", "gltf"}
        /\ ~load_call.had_meshes) =>
        /\ \A i \in 1..Len(meshes) : meshes[i].name = "live"
        /\ \A k \in 1..Len(load_call.calls) :
               load_call.calls[k].trace.unnamed = 0
(***************************************************************************)
(* Claims about the meshes of glTF nodes.                                  *)
(***************************************************************************)
\* the number of library meshes built from element i of "meshes": none for
\* an element that is no object or has no primitives, else one for every
\* primitive read_prim accepts, up to a primitive that is no object
RECURSIVE PrimsBuilt(_, _)
PrimsBuilt(prims, j) ==
    IF j > Len(prims) \/ ~prims[j].obj THEN 0
    ELSE (IF prims[j].ok THEN 1 ELSE 0) + PrimsBuilt(prims, j + 1)

BuiltFrom(g, i) ==
    IF i > Len(g.meshes) \/ i \in g.skip \cup g.noprims THEN 0
    ELSE PrimsBuilt(g.meshes[i], 1)

RECURSIVE BuiltBefore(_, _)
BuiltBefore(g, i) ==
    IF i <= 1 THEN 0 ELSE BuiltBefore(g, i - 1) + BuiltFrom(g, i - 1)

\* the library meshes built from the element with 0-based index k
MeshesOfElement(g, k) ==
    (BuiltBefore(g, k + 1) + 1)..(BuiltBefore(g, k + 1) + BuiltFrom(g, k + 1))

\* a glTF file was loaded into an empty scene
GltfLoaded ==
    /\ last_op = "load" /\ load_call.kind = "gltf" /\ load_call.res = 0
    /\ ~load_call.had_meshes
    /\ Len(nodes) = Len(load_call.gltf.nodes)

\* C26: after a glTF load a node with "mesh": k holds exactly the library
\* meshes built from the primitives of element k of "meshes", whatever the
\* elements before it are.
C26_NodeMeshesOfElement ==
    GltfLoaded =>
        \A n \in 1..Len(load_call.gltf.nodes) :
            load_call.gltf.nodes[n].mesh >= 0 =>
                Range(node_meshes[n])
                    = MeshesOfElement(load_call.gltf,
                                      load_call.gltf.nodes[n].mesh)

\* what does hold: the same for files in which every element of "meshes"
\* before the one the node names was read to its end
C26_NodeMeshesWhenAllRead ==
    GltfLoaded =>
        \A n \in 1..Len(load_call.gltf.nodes) :
            LET idx  == load_call.gltf.nodes[n].mesh
                file == load_call.gltf
            IN  (idx >= 0 /\ \A i \in 1..(idx + 1) :
                     i <= Len(file.meshes) =>
                         /\ i \notin file.skip \cup file.noprims
                         /\ \A j \in 1..Len(file.meshes[i]) :
                                file.meshes[i][j].obj)
                   => Range(node_meshes[n]) = MeshesOfElement(file, idx)
(***************************************************************************)
(* Claims about reads that deliver less than was asked for.                *)
(***************************************************************************)
\* the stream ends before the header and the face records it announces
JtfCutShort(st) ==
    \/ st.flen < JTF_HDR
    \/ st.magic /\ st.flen < JTF_HDR + JTF_FACE * st.nfaces

\* C22: mf_load_jtf returns failure whenever a read returns -1 or fewer
\* bytes than asked for before the header and all the face records it
\* announces are read, also for a stream that ends on a record boundary,
\* and no face is built from bytes that were not delivered.
C22_JtfShortReadFails ==
    raw_call.op = "load_jtf" =>
        /\ JtfCutShort(raw_call.st) => (raw_call.res = -1 /\ raw_call.added = 0)
        /\ raw_call.stale = 0

\* what does hold: a stream that ends inside the header or inside a face
\* record is refused
C22_JtfPartialReadFails ==
    (raw_call.op = "load_jtf" /\ JtfCutShort(raw_call.st)
        /\ raw_call.st.flen # 0
        /\ (raw_call.st.flen - JTF_HDR) % JTF_FACE # 0)
      => (raw_call.res = -1 /\ raw_call.added = 0)
(***************************************************************************)
(* Claims about the chunk loop of the 3DS reader.                          *)
(***************************************************************************)
\* an iteration of the chunk loop that did not leave the loop
LoopIteration ==
    /\ raw_call.op = "load_3ds" /\ raw_call.at = "loop"
    /\ raw_call'.op = "load_3ds" /\ raw_call'.at = "loop"
    /\ raw_call'.cells = raw_call.cells
    /\ raw_call'.iters = raw_call.iters + 1

\* C25: every iteration of the chunk loop of mf_load_3ds moves the stream
\* strictly forward, also over a chunk whose length field is below 6, so
\* that the load ends on every finite stream.
C25_ChunkLoopAdvances ==
    [][LoopIteration => raw_call'.pos > raw_call.pos]_vars

\* C25, as a property of runs: a load that entered the loop leaves it
C25_Load3dsTerminates ==
    (raw_call.op = "load_3ds" /\ raw_call.at = "loop")
        ~> (raw_call.op = "load_3ds" /\ raw_call.at # "loop")

\* the main chunk ends with the stream and every chunk after it is as long
\* as its header at least
ChunksSound(cells) ==
    /\ Len(cells) > 0
    /\ cells[1].len <= CHDR_SIZE * Len(cells)
    /\ \A i \in 2..Len(cells) : cells[i].len >= CHDR_SIZE

\* what does hold: on such a stream every iteration moves forward
C25_SoundChunksAdvance ==
    [][(LoopIteration /\ ChunksSound(raw_call.cells))
          => raw_call'.pos > raw_call.pos]_vars

\* every chunk of a written file, the file's main chunk included
RECURSIVE AllChunks(_)
AllChunks(c) == {c} \cup UNION {AllChunks(c.kids[i]) : i \in DOMAIN c.kids}

\* C21: in every file written by mf_save_3ds, each chunk's length field is
\* 6 plus the payload bytes written for it, nested chunks included, so the
\* children of every chunk tile it exactly.
C21_ChunkLengthsExact ==
    raw_call.op = "save_3ds" =>
        \A c \in AllChunks(raw_call.file) : c.len = Written(c)

\* C21, what holds: the lengths are exact for every chunk other than the
\* material percentage chunks and the chunks that hold them, and the
\* assertion on the object chunk's length never fails.
PercChunks == {"MTL_SHININESS", "MTL_SHINSTR", "MTL_SELFILLUM", "PERCENT_FLT"}

C21_LengthsExactButPercent ==
    raw_call.op = "save_3ds" =>
        /\ raw_call.asserts
        /\ \A c \in AllChunks(raw_call.file) :
              IF c.id \in PercChunks THEN c.len = Written(c) - 1
              ELSE c.id \notin {"MAIN", "3DEDITOR", "MATERIAL"}
                      => c.len = Written(c)
        /\ \A c \in AllChunks(raw_call.file) :
              c.id \in {"MAIN", "3DEDITOR", "MATERIAL"} => c.len = Written(c)

=============================================================================
